---------------------------- MODULE Spec2Model ----------------------------
(***************************************************************************)
(* JobMateAI, backend/app/services/scrapers.py: the job scraping pipeline. *)
(*                                                                         *)
(* The model follows one call at a time of either                          *)
(*   JobScraper.fetch_page(url, retries, delay)      (called directly), or *)
(*   ScraperFactory.scrape_job(url)                                        *)
(* through its steps: adapter selection, the sleeps and GET attempts of    *)
(* fetch_page, the adapter's field extraction and scrape_job's final       *)
(* title check.  The network's answers (per-attempt outcome, page served)  *)
(* are chosen nondeterministically when the answer arrives.                *)
(*                                                                         *)
(* Text is kept as strings, character by character: Python's `in`,         *)
(* lower(), re.sub and re.search are computed on the characters.           *)
(* Durations are integers (one unit = the caller's time unit of `delay`).  *)
(* The shekel sign U+20AA is written "^" and the en dash U+2013 "~" in     *)
(* the texts of the model (the module's strings are ASCII).                *)
(***************************************************************************)
EXTENDS Integers, Sequences, FiniteSets, TLC

VARIABLES
    pc,         \* position of the current call
    mode,       \* "none" | "fetch_page" | "scrape_job": the call in progress
    url,        \* the call's url argument
    retries,    \* fetch_page's retries argument
    delay,      \* fetch_page's delay argument
    attempt,    \* fetch_page's loop variable
    gets,       \* session.get calls issued by the current fetch_page
    inflight,   \* session.get calls issued and not yet answered
    sleeps,     \* the time.sleep calls of the current fetch_page, in order
    outcomes,   \* how each answered attempt ended, in order: "ok", "transport"
                \* (it raised a requests.RequestException) or "other"
    lastExc,    \* the exception the latest answered attempt raised, or "none"
    fetchRet,   \* "pending" | "doc" | "None" | "raised": how fetch_page ended
    page,       \* the document fetch_page parsed
    selected,   \* what get_scraper did in this call
    instances,  \* adapter objects constructed during the current call
    used,       \* ids of the objects whose methods the current call invoked
    nextId,     \* identity of the next object to be constructed
    retired,    \* ids of the objects constructed by the calls that are over
    calls,      \* calls completed so far
    scraped,    \* what the adapter's scrape returned
    result,     \* what the call returned
    fn,         \* the function a caller invoked on its own, "none" when none
    arg,        \* the arguments of that call
    ret,        \* what that call returned or raised
    db,         \* the rows of the users, jobs and job_alerts tables
    pending     \* per request worker: the create_user request whose lookup
                \* is done and whose commit is not, or Idle

vars == <<pc, mode, url, retries, delay, attempt, gets, inflight, sleeps,
          outcomes, lastExc, fetchRet, page, selected, instances, used, nextId,
          retired, calls, scraped, result, fn, arg, ret, db, pending>>

\* the state of the direct calls of the text functions
libVars == <<fn, arg, ret>>

\* the state of the REST handlers
apiVars == <<db, pending>>

-----------------------------------------------------------------------------
(* Bounds of the model *)

MaxRetries == 4
MaxDelay == 2
MaxCalls == 1
MaxWorkers == 2
MaxUserId == 2
MaxJobId == 2
MaxAlertId == 1

(* fetch_page's default arguments, used by every adapter's scrape *)
DefaultRetries == 3
DefaultDelay == 1

-----------------------------------------------------------------------------
(* Python values *)

\* None where a text is expected (no text of the model contains "<")
None == "<None>"
\* None where an integer is expected (parsed amounts are never negative)
NoneInt == -1

-----------------------------------------------------------------------------
(* Strings *)

Ch(s, i) == SubSeq(s, i, i)

\* Python: p in s
Contains(p, s) ==
    \E i \in 1..(Len(s) - Len(p) + 1) : SubSeq(s, i, i + Len(p) - 1) = p

\* Python: s.find(c) on a one-character c, 1-based; 0 when absent
FindCh(c, s) ==
    IF \E i \in 1..Len(s) : Ch(s, i) = c
    THEN CHOOSE i \in 1..Len(s) :
            Ch(s, i) = c /\ \A j \in 1..(i - 1) : Ch(s, j) # c
    ELSE 0

UpperChars == "ABCDEFGHIJKLMNOPQRSTUVWXYZ"
LowerChars == "abcdefghijklmnopqrstuvwxyz"
DigitChars == "0123456789"

CharsOf(s) == {Ch(s, i) : i \in 1..Len(s)}
UpperSet == CharsOf(UpperChars)
LowerSet == CharsOf(LowerChars)
DigitSet == CharsOf(DigitChars)

\* the lowercase letter of each uppercase letter
LowerOf == [c \in UpperSet |-> Ch(LowerChars, FindCh(c, UpperChars))]

LowerCh(c) == IF c \in UpperSet THEN LowerOf[c] ELSE c

RECURSIVE Lower(_)
\* Python: s.lower()
Lower(s) ==
    IF Len(s) = 0 THEN ""
    ELSE IF Len(s) = 1 THEN LowerCh(s)
    ELSE Lower(SubSeq(s, 1, Len(s) \div 2))
            \o Lower(SubSeq(s, Len(s) \div 2 + 1, Len(s)))

IsSpace(c) == c \in {" ", "\t", "\n", "\r"}
IsDigit(c) == c \in DigitSet
IsAlpha(c) == c \in UpperSet \/ c \in LowerSet

-----------------------------------------------------------------------------
(* urllib.parse.urlparse(url).netloc, as ScraperFactory.get_scraper uses it *)

SchemeChars == UpperSet \cup LowerSet \cup DigitSet \cup {"+", "-", "."}

\* 1-based index of the first of "/", "?", "#" at or after position from;
\* Len(s) + 1 when there is none
NetlocEnd(s, from) ==
    IF \E i \in from..Len(s) : Ch(s, i) \in {"/", "?", "#"}
    THEN CHOOSE i \in from..Len(s) :
            /\ Ch(s, i) \in {"/", "?", "#"}
            /\ \A j \in from..(i - 1) : Ch(s, j) \notin {"/", "?", "#"}
    ELSE Len(s) + 1

\* urlparse: [raises |-> it raised ValueError, netloc |-> the network location]
urlparse(u) ==
    LET colon == FindCh(":", u)
        hasScheme ==
            /\ colon > 1
            /\ IsAlpha(Ch(u, 1))
            /\ \A j \in 1..(colon - 1) : Ch(u, j) \in SchemeChars
        rest == IF hasScheme THEN SubSeq(u, colon + 1, Len(u)) ELSE u
        hasNetloc == Len(rest) >= 2 /\ SubSeq(rest, 1, 2) = "//"
        netloc == IF hasNetloc
                  THEN SubSeq(rest, 3, NetlocEnd(rest, 3) - 1)
                  ELSE ""
        open == Contains("[", netloc)
        close == Contains("]", netloc)
    IN  [raises |-> (open /\ ~close) \/ (close /\ ~open), netloc |-> netloc]

-----------------------------------------------------------------------------
(* ScraperFactory.get_scraper *)

AdapterClasses ==
    {"LinkedInScraper", "IndeedScraper", "GlassdoorScraper", "DrushimScraper",
     "AllJobsScraper"}

\* which text of the parsed URL the dispatch looks at
Domain(parsed) == Lower(parsed.netloc)

\* [raises |-> the call raised, cls |-> class of the adapter constructed]
get_scraper(u) ==
    LET parsed == urlparse(u)
        domain == Domain(parsed)
    IN  IF parsed.raises THEN [raises |-> TRUE, cls |-> "none"]
        ELSE [raises |-> FALSE,
              cls |->
                IF Contains("linkedin.com", domain) THEN "LinkedInScraper"
                ELSE IF Contains("indeed.com", domain)
                        \/ Contains("indeed.co", domain) THEN "IndeedScraper"
                ELSE IF Contains("glassdoor.com", domain) THEN "GlassdoorScraper"
                ELSE IF Contains("drushim.co.il", domain) THEN "DrushimScraper"
                ELSE IF Contains("alljobs.co.il", domain) THEN "AllJobsScraper"
                ELSE "LinkedInScraper"]

-----------------------------------------------------------------------------
(* JobScraper.clean_text *)

RECURSIVE LStrip(_)
LStrip(s) == IF s # "" /\ IsSpace(Head(s)) THEN LStrip(Tail(s)) ELSE s

RECURSIVE RStrip(_)
RStrip(s) ==
    IF s # "" /\ IsSpace(Ch(s, Len(s)))
    THEN RStrip(SubSeq(s, 1, Len(s) - 1))
    ELSE s

RECURSIVE CollapseSpaces(_)
\* re.sub(r'\s+', ' ', s)
CollapseSpaces(s) ==
    IF s = "" THEN ""
    ELSE IF IsSpace(Head(s)) THEN " " \o CollapseSpaces(LStrip(s))
    ELSE Head(s) \o CollapseSpaces(Tail(s))

clean_text(text) ==
    IF text = "" THEN "" ELSE RStrip(LStrip(CollapseSpaces(text)))

-----------------------------------------------------------------------------
(* JobScraper.extract_salary *)

Shekel == "^"
EnDash == "~"

\* index of the first character at or after i that is not white space
SkipSpaces(s, i) ==
    IF \E k \in i..Len(s) : ~IsSpace(Ch(s, k))
    THEN CHOOSE k \in i..Len(s) :
            ~IsSpace(Ch(s, k)) /\ \A j \in i..(k - 1) : IsSpace(Ch(s, j))
    ELSE Len(s) + 1

\* \d+ from the digit at j: index of the last digit of the run
DigitsEnd(s, j) ==
    CHOOSE e \in j..Len(s) :
        /\ \A k \in j..e : IsDigit(Ch(s, k))
        /\ (e = Len(s) \/ ~IsDigit(Ch(s, e + 1)))

RECURSIVE ThousandsEnd(_, _)
\* (?:,\d{3})* after index e
ThousandsEnd(s, e) ==
    IF /\ e + 4 <= Len(s)
       /\ Ch(s, e + 1) = ","
       /\ \A k \in (e + 2)..(e + 4) : IsDigit(Ch(s, k))
    THEN ThousandsEnd(s, e + 4)
    ELSE e

\* (?:\.\d+)? after index e
FractionEnd(s, e) ==
    IF e + 2 <= Len(s) /\ Ch(s, e + 1) = "." /\ IsDigit(Ch(s, e + 2))
    THEN DigitsEnd(s, e + 2)
    ELSE e

\* (\d+(?:,\d{3})*(?:\.\d+)?) from the digit at j: index of its last character
AmountEnd(s, j) == FractionEnd(s, ThousandsEnd(s, DigitsEnd(s, j)))

\* (?:-|to|<en dash>) at k: index after the separator, 0 when there is none
SeparatorEnd(s, k) ==
    IF k <= Len(s) /\ Ch(s, k) \in {"-", EnDash} THEN k + 1
    ELSE IF k + 1 <= Len(s) /\ SubSeq(s, k, k + 1) = "to" THEN k + 2
    ELSE 0

NoMatch == [ok |-> FALSE, g1 |-> "", g2 |-> ""]

\* the second amount, looked for at k (after the optional sign and white space)
RangeSecond(s, j, e1, k) ==
    IF k <= Len(s) /\ IsDigit(Ch(s, k))
    THEN [ok |-> TRUE, g1 |-> SubSeq(s, j, e1),
          g2 |-> SubSeq(s, k, AmountEnd(s, k))]
    ELSE NoMatch

\* the optional sign at k, and the white space after it
RangeSign(s, j, e1, k, sign) ==
    RangeSecond(s, j, e1,
                SkipSpaces(s, IF k <= Len(s) /\ Ch(s, k) = sign
                              THEN k + 1 ELSE k))

\* k: the index after the separator, 0 when there was none
RangeSeparator(s, j, e1, k, sign) ==
    IF k = 0 THEN NoMatch ELSE RangeSign(s, j, e1, SkipSpaces(s, k), sign)

\* the range pattern with its first amount starting at the digit at j and an
\* optional `sign` before the second amount: [ok, g1, g2], the groups matched
RangeFirst(s, j, e1, sign) ==
    RangeSeparator(s, j, e1, SeparatorEnd(s, SkipSpaces(s, e1 + 1)), sign)

RangeAt(s, j, sign) == RangeFirst(s, j, AmountEnd(s, j), sign)

\* a "$" and then only white space stand before position j
DollarBefore(s, j) ==
    \E i \in 1..(j - 1) :
        Ch(s, i) = "$" /\ \A k \in (i + 1)..(j - 1) : IsSpace(Ch(s, k))

\* re.search: the leftmost match, named by where its first amount starts
IlsStarts(s) ==
    {j \in 1..Len(s) : IsDigit(Ch(s, j)) /\ RangeAt(s, j, Shekel).ok}
UsdStarts(s) ==
    {j \in 1..Len(s) :
        IsDigit(Ch(s, j)) /\ DollarBefore(s, j) /\ RangeAt(s, j, "$").ok}
SingleStarts(s) == {j \in 1..Len(s) : IsDigit(Ch(s, j))}

Leftmost(S) == CHOOSE j \in S : \A k \in S : j <= k

\* the replace forgotten
KeepCommas(g) == g

RECURSIVE RemoveCommas(_)
\* g.replace(',', '')
RemoveCommas(g) ==
    IF g = "" THEN ""
    ELSE IF Head(g) = "," THEN RemoveCommas(Tail(g))
    ELSE Head(g) \o RemoveCommas(Tail(g))

\* int(t) raises ValueError unless t is a run of digits
IntRaises(t) == t = "" \/ \E k \in 1..Len(t) : ~IsDigit(Ch(t, k))

RECURSIVE IntOf(_)
IntOf(t) ==
    IF t = "" THEN 0
    ELSE 10 * IntOf(SubSeq(t, 1, Len(t) - 1))
         + (FindCh(Ch(t, Len(t)), DigitChars) - 1)

\* the amounts of a matched range, commas removed: [raises, min, max, currency]
SalaryOfAmounts(t1, t2, currency) ==
    IF IntRaises(t1) \/ IntRaises(t2)
    THEN [raises |-> TRUE, min |-> NoneInt, max |-> NoneInt,
          currency |-> currency]
    ELSE [raises |-> FALSE, min |-> IntOf(t1), max |-> IntOf(t2),
          currency |-> currency]

SalaryOfRange(m, currency) ==
    SalaryOfAmounts(RemoveCommas(m.g1), RemoveCommas(m.g2), currency)

\* int(match.group(1).replace(',', '')) of the single-value pattern at j
SingleValue(text, j) ==
    IntOf(RemoveCommas(SubSeq(text, j, ThousandsEnd(text, DigitsEnd(text, j)))))

NoSalary(currency) ==
    [raises |-> FALSE, min |-> NoneInt, max |-> NoneInt, currency |-> currency]

\* the single-value pattern; S: where a match can start
SalaryFromSingle(text, S) ==
    IF S = {} THEN NoSalary("ILS")
    ELSE [NoSalary("ILS") EXCEPT
            !.min = SingleValue(text, Leftmost(S)),
            !.max = SingleValue(text, Leftmost(S))]

\* the USD pattern; S: where its first amount can start
SalaryFromUsd(text, S) ==
    IF S # {}
    THEN SalaryOfRange(RangeAt(text, Leftmost(S), "$"), "USD")
    ELSE SalaryFromSingle(text, SingleStarts(text))

\* the shekel pattern; S: where its first amount can start
SalaryFromIls(text, S) ==
    IF S # {}
    THEN SalaryOfRange(RangeAt(text, Leftmost(S), Shekel), "ILS")
    ELSE SalaryFromUsd(text, UsdStarts(text))

extract_salary(text) == SalaryFromIls(text, IlsStarts(text))

-----------------------------------------------------------------------------
(* LinkedInScraper.extract_skills *)

common_skills ==
    <<"Python", "Java", "JavaScript", "TypeScript", "React", "Angular", "Vue",
      "Node.js", "Django", "Flask", "FastAPI", "Spring", "SQL", "PostgreSQL",
      "MySQL", "MongoDB", "Redis", "Docker", "Kubernetes", "AWS", "Azure", "GCP",
      "Git", "CI/CD", "REST", "API", "GraphQL", "Microservices", "Agile", "Scrum",
      "C++", "C#", ".NET", "Ruby", "PHP", "Go", "Rust", "Swift", "Kotlin",
      "HTML", "CSS", "Tailwind", "Bootstrap", "Redux", "Next.js", "Express">>

MaxSkills == 10

\* the scan without the [:10] cut
extract_skills_uncapped(text) ==
    LET text_lower == Lower(text)
        Found(skill) == Contains(Lower(skill), text_lower)
    IN  SelectSeq(common_skills, Found)

extract_skills(text) ==
    LET text_lower == Lower(text)
        Found(skill) == Contains(Lower(skill), text_lower)
        found_skills == SelectSeq(common_skills, Found)
    IN  IF Len(found_skills) > MaxSkills
        THEN SubSeq(found_skills, 1, MaxSkills)
        ELSE found_skills

-----------------------------------------------------------------------------
(* The adapters' scrape, from the parsed document on *)

(* A parsed document, as far as the adapters look at it: for each field the   *)
(* text of the element the adapter's selectors find (primary selector, then   *)
(* fallback), or None when none of them finds an element; `other` is the rest *)
(* of the page's text.  Company and location are extracted the way the title  *)
(* is and decide nothing; they are left out.                                  *)
Text(e) == IF e = None THEN "" ELSE e

\* soup.get_text(): the text nodes of the page, in document order
get_text(p) ==
    Text(p.title) \o Text(p.job_type) \o Text(p.salary) \o Text(p.description)
        \o p.other

\* Python truth of an optional text
Truthy(t) == t # None /\ t # ""

\* if elem: job_data[field] = self.clean_text(elem.get_text())
FieldOf(e) == IF e = None THEN None ELSE clean_text(e)

\* the two tests in the other order
WorkModeHybridFirst(full_text) ==
    IF Contains("hybrid", full_text) THEN "Hybrid"
    ELSE IF Contains("remote", full_text) THEN "Remote"
    ELSE "Onsite"

\* work_mode from the whole page's lowercased text
WorkModeOf(full_text) ==
    IF Contains("remote", full_text) THEN "Remote"
    ELSE IF Contains("hybrid", full_text) THEN "Hybrid"
    ELSE "Onsite"

\* job_type from the whole page's lowercased text
JobTypeOf(full_text) ==
    IF Contains("part-time", full_text) \/ Contains("part time", full_text)
    THEN "Part-time"
    ELSE IF Contains("contract", full_text) THEN "Contract"
    ELSE "Full-time"

\* the literals in lower case
IndeedJobTypeLower(elem) ==
    IF elem = None THEN "full-time"
    ELSE IF Contains("part", Lower(elem)) THEN "part-time"
    ELSE IF Contains("contract", Lower(elem)) THEN "contract"
    ELSE "full-time"

\* IndeedScraper: job_type from the job-type element alone
IndeedJobTypeOf(elem) ==
    IF elem = None THEN "Full-time"
    ELSE IF Contains("part", Lower(elem)) THEN "Part-time"
    ELSE IF Contains("contract", Lower(elem)) THEN "Contract"
    ELSE "Full-time"

\* the job_data dictionary as every adapter initialises it
job_data ==
    [title |-> None, description |-> None, job_type |-> "Full-time",
     work_mode |-> "Onsite", skills |-> <<>>, salary_min |-> NoneInt,
     salary_max |-> NoneInt]

\* what a scrape body did: it raised, or it built `data`; `helper` tells whether
\* it constructed a LinkedInScraper of its own to call extract_skills
Raised == [raised |-> TRUE, helper |-> FALSE, data |-> job_data]
Built(data, helper) == [raised |-> FALSE, helper |-> helper, data |-> data]

\* salary of the salary element, when the page has one
ElemSalary(p) ==
    IF p.salary = None THEN NoSalary("ILS") ELSE extract_salary(p.salary)

\* extract_skills called on the adapter itself: no object constructed
ConstructsHelperNever(description) == FALSE

\* if job_data["description"]: skills_scraper = LinkedInScraper()
ConstructsHelper(description) == Truthy(description)

\* if job_data["description"]: ... extract_skills(job_data["description"])
SkillsOf(description) ==
    IF Truthy(description) THEN extract_skills(description) ELSE <<>>

LinkedInScraper_scrape(p) ==
    LET description == FieldOf(p.description)
        full_text == Lower(get_text(p))
        salary_info == extract_salary(get_text(p))
    IN  IF salary_info.raises THEN Raised
        ELSE Built([job_data EXCEPT
                        !.title = FieldOf(p.title),
                        !.description = description,
                        !.work_mode = WorkModeOf(full_text),
                        !.job_type = JobTypeOf(full_text),
                        !.skills = SkillsOf(description),
                        !.salary_min = salary_info.min,
                        !.salary_max = salary_info.max],
                   FALSE)

IndeedScraper_scrape(p) ==
    LET description == FieldOf(p.description)
        salary_info == ElemSalary(p)
    IN  IF salary_info.raises THEN Raised
        ELSE Built([job_data EXCEPT
                        !.title = FieldOf(p.title),
                        !.salary_min = salary_info.min,
                        !.salary_max = salary_info.max,
                        !.description = description,
                        !.job_type = IndeedJobTypeOf(p.job_type),
                        !.work_mode = WorkModeOf(Lower(get_text(p))),
                        !.skills = SkillsOf(description)],
                   ConstructsHelper(description))

GlassdoorScraper_scrape(p) ==
    LET description == FieldOf(p.description)
        salary_info == ElemSalary(p)
    IN  IF salary_info.raises THEN Raised
        ELSE Built([job_data EXCEPT
                        !.title = FieldOf(p.title),
                        !.salary_min = salary_info.min,
                        !.salary_max = salary_info.max,
                        !.description = description,
                        !.skills = SkillsOf(description)],
                   ConstructsHelper(description))

DrushimScraper_scrape(p) ==
    LET description == FieldOf(p.description)
        salary_info == ElemSalary(p)
    IN  IF salary_info.raises THEN Raised
        ELSE Built([job_data EXCEPT
                        !.title = FieldOf(p.title),
                        !.description = description,
                        !.salary_min = salary_info.min,
                        !.salary_max = salary_info.max,
                        !.skills = SkillsOf(description)],
                   ConstructsHelper(description))

AllJobsScraper_scrape(p) ==
    LET description == FieldOf(p.description)
    IN  Built([job_data EXCEPT
                    !.title = FieldOf(p.title),
                    !.description = description,
                    !.skills = SkillsOf(description)],
              ConstructsHelper(description))

\* scraper.scrape(url) after a successful fetch, by the class of the adapter
scrape(cls, p) ==
    CASE cls = "LinkedInScraper" -> LinkedInScraper_scrape(p)
      [] cls = "IndeedScraper" -> IndeedScraper_scrape(p)
      [] cls = "GlassdoorScraper" -> GlassdoorScraper_scrape(p)
      [] cls = "DrushimScraper" -> DrushimScraper_scrape(p)
      [] cls = "AllJobsScraper" -> AllJobsScraper_scrape(p)

-----------------------------------------------------------------------------
(* Inputs *)

URLs ==
    {"https://www.linkedin.com/jobs/view/1",
     "https://www.indeed.com/viewjob?jk=abc123",
     "HTTPS://IL.Indeed.Com/ViewJob",
     "https://indeed.co.uk/job/7",
     "https://www.glassdoor.com/job-listing/x.htm",
     "https://www.drushim.co.il/job/1",
     "https://www.alljobs.co.il:8080/job",
     "https://unknown-board.example/x",
     "https://example.org/linkedin.com/indeed.com",
     "https://example.org?ref=glassdoor.com",
     "https://linkedin.com.indeed.com/x",
     "https://linkedin.com@www.glassdoor.com/job",
     "www.indeed.com/viewjob",
     "http://[www.indeed.com/x"}

\* the url of the direct fetch_page calls (fetch_page never looks at it)
FetchURLs == {"https://www.linkedin.com/jobs/view/1"}

GoodTitle == "\n Data  Engineer "
GoodDescription == " SQL and  Go\n"

TitleElems == {None, " \n ", GoodTitle}
\* vocabulary terms that occur only inside longer words
TrapDescription == "Going with JavaScript"
\* twelve vocabulary terms
ManySkillsDescription ==
    "Python Java React Vue Django Flask SQL AWS Git REST API Go"

DescriptionElems ==
    {None, "\n", GoodDescription, TrapDescription, ManySkillsDescription}
SalaryElems == {None, "$5,000 - $7,000", "1.5 - 2"}
JobTypeElems == {None, "Part-time", "Contract"}
OtherTexts == {"", " hybrid or Remote", " Hybrid, part time", " contract"}

\* the pages served: every title and description on a page without salary and
\* job-type elements, every salary, job type and other text on a page with a
\* good title and description
Pages ==
    {p \in [title : TitleElems, description : DescriptionElems,
            salary : SalaryElems, job_type : JobTypeElems, other : OtherTexts] :
        \/ p.salary = None /\ p.job_type = None
                /\ p.other \in {"", " hybrid or Remote"}
        \/ p.title = GoodTitle /\ p.description = GoodDescription}

NoPage ==
    [title |-> None, description |-> None, salary |-> None, job_type |-> None,
     other |-> ""]

\* requests.RequestException and the subclasses an attempt can raise
RequestExceptions == {"Timeout", "HTTPError", "ConnectionError"}
\* what else an attempt can raise: BeautifulSoup rejecting the markup
OtherExceptions == {"ParserRejectedMarkup"}
Failures == RequestExceptions \cup OtherExceptions
\* what an exception is, whatever the code does with it
KindOf(e) == IF e \in RequestExceptions THEN "transport" ELSE "other"

NoRecord == [kind |-> "None"]
Record(data) == [kind |-> "record", data |-> data]
NotSelected == [raises |-> FALSE, cls |-> "none", id |-> 0]
\* no direct call of a text function in progress
NoArg == [kind |-> "none"]
NoRet == [kind |-> "none"]

\* the tables after init_db on a fresh database
EmptyDb == [users |-> {}, jobs |-> {}, alerts |-> {}, supplied |-> <<>>]

\* the threads of the pool that run the synchronous handlers
Workers == 1..MaxWorkers
Idle == [kind |-> "idle"]

-----------------------------------------------------------------------------
(* JobScraper.fetch_page *)

\* a narrower except clause: only time-outs are caught
IsTimeoutOnly(e) == e = "Timeout"

\* except requests.RequestException
IsRequestException(e) == e \in RequestExceptions

\* the give-up test one attempt early
IsLastAttemptEarly(a, r) == a = r - 2

\* if attempt == retries - 1
IsLastAttempt(a, r) == a = r - 1

\* no rate-limiting sleep before the request
PreDelayNone(d) == 0

\* time.sleep(delay)
PreDelay(d) == d

\* the backoff the code's comment announces: exponential
BackoffExponential(d, a) == d * 2^a

\* time.sleep(delay * (attempt + 1))
Backoff(d, a) == d * (a + 1)

\* the state of a fetch_page(url, r, d) call on entry to its loop
FetchEnter(r, d) ==
    /\ retries' = r
    /\ delay' = d
    /\ attempt' = 0
    /\ gets' = 0
    /\ inflight' = 0
    /\ sleeps' = <<>>
    /\ outcomes' = <<>>
    /\ lastExc' = "none"
    /\ page' = NoPage
    /\ IF r > 0
       THEN pc' = "fetch_sleep" /\ fetchRet' = "pending"
       ELSE pc' = "fetched" /\ fetchRet' = "None"

Init ==
    /\ pc = "idle"
    /\ mode = "none"
    /\ url = ""
    /\ retries = 0
    /\ delay = 0
    /\ attempt = 0
    /\ gets = 0
    /\ inflight = 0
    /\ sleeps = <<>>
    /\ outcomes = <<>>
    /\ lastExc = "none"
    /\ fetchRet = "pending"
    /\ page = NoPage
    /\ selected = NotSelected
    /\ instances = {}
    /\ used = {}
    /\ nextId = 1
    /\ retired = {}
    /\ calls = 0
    /\ scraped = NoRecord
    /\ result = NoRecord
    /\ fn = "none"
    /\ arg = NoArg
    /\ ret = NoRet
    /\ db = EmptyDb
    /\ pending = [w \in Workers |-> Idle]

\* a caller invokes fetch_page(u, r, d) on a scraper object of its own
FetchPageCall(u, r, d) ==
    /\ pc = "idle"
    /\ mode' = "fetch_page"
    /\ url' = u
    /\ instances' = {[id |-> nextId, cls |-> "JobScraper"]}
    /\ used' = {nextId}
    /\ nextId' = nextId + 1
    /\ FetchEnter(r, d)
    /\ UNCHANGED <<selected, retired, calls, scraped, result>>
    /\ UNCHANGED <<libVars, apiVars>>

\* ScraperFactory.scrape_job(u) up to the adapter's call of fetch_page
ScrapeJobCall(u) ==
    /\ pc = "idle"
    /\ mode' = "scrape_job"
    /\ url' = u
    /\ LET s == get_scraper(u)
       IN  IF s.raises
           THEN /\ selected' = [raises |-> TRUE, cls |-> "none", id |-> 0]
                /\ pc' = "done"
                /\ result' = NoRecord
                /\ UNCHANGED <<retries, delay, attempt, gets, inflight, sleeps,
                               outcomes, lastExc, fetchRet, page, instances,
                               used, nextId>>
           ELSE /\ selected' = [raises |-> FALSE, cls |-> s.cls, id |-> nextId]
                /\ instances' = {[id |-> nextId, cls |-> s.cls]}
                /\ used' = {nextId}
                /\ nextId' = nextId + 1
                /\ FetchEnter(DefaultRetries, DefaultDelay)
                /\ UNCHANGED result
    /\ UNCHANGED <<retired, calls, scraped>>
    /\ UNCHANGED <<libVars, apiVars>>

\* time.sleep(delay) at the top of an attempt
PreSleep ==
    /\ pc = "fetch_sleep"
    /\ sleeps' = Append(sleeps, [kind |-> "pre", n |-> gets + 1,
                                 dur |-> PreDelay(delay)])
    /\ pc' = "fetch_get"
    /\ UNCHANGED <<mode, url, retries, delay, attempt, gets, inflight, outcomes,
                   lastExc, fetchRet, page, selected, instances, used, nextId,
                   retired, calls, scraped, result>>
    /\ UNCHANGED <<libVars, apiVars>>

\* self.session.get(url, timeout=10) is issued
SendGet ==
    /\ pc = "fetch_get"
    /\ gets' = gets + 1
    /\ inflight' = inflight + 1
    /\ pc' = "fetch_wait"
    /\ UNCHANGED <<mode, url, retries, delay, attempt, sleeps, outcomes,
                   lastExc, fetchRet, page, selected, instances, used, nextId,
                   retired, calls, scraped, result>>
    /\ UNCHANGED <<libVars, apiVars>>

\* the GET answers 2xx and BeautifulSoup parses the body into document p
RecvOk(p) ==
    /\ pc = "fetch_wait"
    /\ inflight' = inflight - 1
    /\ outcomes' = Append(outcomes, "ok")
    /\ lastExc' = "none"
    /\ page' = p
    /\ fetchRet' = "doc"
    /\ pc' = "fetched"
    /\ UNCHANGED <<mode, url, retries, delay, attempt, gets, sleeps, selected,
                   instances, used, nextId, retired, calls, scraped, result>>
    /\ UNCHANGED <<libVars, apiVars>>

\* the attempt raises e: in get (time-out, connection), in raise_for_status
\* (non-2xx) or in BeautifulSoup
RecvFail(e) ==
    /\ pc = "fetch_wait"
    /\ inflight' = inflight - 1
    /\ outcomes' = Append(outcomes, KindOf(e))
    /\ lastExc' = e
    /\ IF ~IsRequestException(e)
       THEN /\ fetchRet' = "raised"
            /\ pc' = "fetched"
            /\ UNCHANGED <<attempt, sleeps>>
       ELSE IF IsLastAttempt(attempt, retries)
       THEN /\ fetchRet' = "None"
            /\ pc' = "fetched"
            /\ UNCHANGED <<attempt, sleeps>>
       ELSE /\ sleeps' = Append(sleeps, [kind |-> "backoff", n |-> gets,
                                        dur |-> Backoff(delay, attempt)])
            /\ attempt' = attempt + 1
            /\ IF attempt + 1 < retries
               THEN pc' = "fetch_sleep" /\ UNCHANGED fetchRet
               ELSE pc' = "fetched" /\ fetchRet' = "None"
    /\ UNCHANGED <<mode, url, retries, delay, gets, page, selected, instances,
                   used, nextId, retired, calls, scraped, result>>
    /\ UNCHANGED <<libVars, apiVars>>

\* fetch_page returns to (or raises into) its direct caller
FetchReturn ==
    /\ pc = "fetched"
    /\ mode = "fetch_page"
    /\ result' = [kind |-> fetchRet]
    /\ pc' = "done"
    /\ UNCHANGED <<mode, url, retries, delay, attempt, gets, inflight, sleeps,
                   outcomes, lastExc, fetchRet, page, selected, instances, used,
                   nextId, retired, calls, scraped>>
    /\ UNCHANGED <<libVars, apiVars>>

-----------------------------------------------------------------------------
(* The rest of the adapter's scrape and of ScraperFactory.scrape_job *)

\* the final check without its title test
HasTitleLoose(r) == r.kind = "record"

\* if result and result.get('title')
HasTitle(r) == r.kind = "record" /\ Truthy(r.data.title)

\* what the adapter's scrape returns (its except clause turns every exception,
\* the one fetch_page let through included, into None), and the LinkedInScraper
\* it constructed on the way
ScrapeOutcome ==
    IF fetchRet = "doc"
    THEN LET b == scrape(selected.cls, page)
         IN  [ret |-> IF b.raised THEN NoRecord ELSE Record(b.data),
              helper |-> b.helper]
    ELSE [ret |-> NoRecord, helper |-> FALSE]

ScrapeFinish ==
    /\ pc = "fetched"
    /\ mode = "scrape_job"
    /\ LET o == ScrapeOutcome
       IN  /\ scraped' = o.ret
           /\ result' = IF HasTitle(o.ret) THEN o.ret ELSE NoRecord
           /\ IF o.helper
              THEN /\ instances' =
                        instances \cup {[id |-> nextId, cls |-> "LinkedInScraper"]}
                   /\ used' = used \cup {nextId}
                   /\ nextId' = nextId + 1
              ELSE UNCHANGED <<instances, used, nextId>>
    /\ pc' = "done"
    /\ UNCHANGED <<mode, url, retries, delay, attempt, gets, inflight, sleeps,
                   outcomes, lastExc, fetchRet, page, selected, retired, calls>>
    /\ UNCHANGED <<libVars, apiVars>>

\* the call is over; its objects are garbage and the next call may start
Finish ==
    /\ pc = "done"
    /\ calls < MaxCalls
    /\ calls' = calls + 1
    /\ pc' = "idle"
    /\ mode' = "none"
    /\ url' = ""
    /\ retries' = 0
    /\ delay' = 0
    /\ attempt' = 0
    /\ gets' = 0
    /\ inflight' = 0
    /\ sleeps' = <<>>
    /\ outcomes' = <<>>
    /\ lastExc' = "none"
    /\ fetchRet' = "pending"
    /\ page' = NoPage
    /\ selected' = NotSelected
    /\ retired' = retired \cup {i.id : i \in instances}
    /\ instances' = {}
    /\ used' = {}
    /\ scraped' = NoRecord
    /\ result' = NoRecord
    /\ UNCHANGED nextId
    /\ UNCHANGED <<libVars, apiVars>>

Next ==
    \/ \E u \in FetchURLs, r \in 0..MaxRetries, d \in 0..MaxDelay :
            FetchPageCall(u, r, d)
    \/ \E u \in URLs : ScrapeJobCall(u)
    \/ PreSleep
    \/ SendGet
    \/ \E p \in Pages : RecvOk(p)
    \/ \E e \in Failures : RecvFail(e)
    \/ FetchReturn
    \/ ScrapeFinish
    \/ Finish

Spec == Init /\ [][Next]_vars

-----------------------------------------------------------------------------
(* Direct calls of the text functions: each call is one step from its        *)
(* arguments to what it returns or raises.                                   *)

scrapeVars ==
    <<pc, mode, url, retries, delay, attempt, gets, inflight, sleeps, outcomes,
      lastExc, fetchRet, page, selected, instances, used, nextId, retired,
      calls, scraped, result>>

RECURSIVE ToDigits(_)
\* the decimal digits of a natural number
ToDigits(n) ==
    IF n < 10 THEN Ch(DigitChars, n + 1)
    ELSE ToDigits(n \div 10) \o Ch(DigitChars, (n % 10) + 1)

RECURSIVE GroupThousands(_)
\* a digit string with a comma before every group of three digits
GroupThousands(d) ==
    IF Len(d) <= 3 THEN d
    ELSE GroupThousands(SubSeq(d, 1, Len(d) - 3)) \o ","
            \o SubSeq(d, Len(d) - 2, Len(d))

\* an amount as a posting writes it
Written(n, commas) == IF commas THEN GroupThousands(ToDigits(n)) ELSE ToDigits(n)

Amounts == {5, 999, 1000, 15000, 20000, 100000, 1234567}
Signs == {Shekel, "$"}
Separators == {"-", " - ", " to ", "to", " " \o EnDash \o " "}
Prefixes == {"", "Salary: "}
Suffixes == {"", " per month"}

\* a salary range written with the same currency sign before both amounts
RangeText(pre, sign, a, sep, b, commas, post) ==
    pre \o sign \o Written(a, commas) \o sep \o sign \o Written(b, commas)
        \o post

\* a text whose only amount is n
SingleText(pre, sign, n, commas, post) ==
    pre \o sign \o Written(n, commas) \o post

\* texts without any amount
NoAmountTexts == {"", "Competitive salary", "$ negotiable - " \o Shekel}

\* other salary texts a page can hold
OtherSalaryTexts ==
    {"$80,000 - 100,000", "1.5 - 2", "3.5 - 5 years", "12.5",
     Shekel \o "15,000.50 - " \o Shekel \o "20,000"}

SalaryRet(text) ==
    LET r == extract_salary(text)
    IN  [kind |-> IF r.raises THEN "raised" ELSE "salary", min |-> r.min,
         max |-> r.max, currency |-> r.currency]

\* extract_salary(text) on a text holding one range
ExtractSalaryRange(pre, sign, a, sep, b, commas, post) ==
    /\ fn = "none"
    /\ fn' = "extract_salary"
    /\ arg' = [kind |-> "range", sign |-> sign, a |-> a, b |-> b,
               text |-> RangeText(pre, sign, a, sep, b, commas, post)]
    /\ ret' = SalaryRet(RangeText(pre, sign, a, sep, b, commas, post))
    /\ UNCHANGED <<scrapeVars, apiVars>>

\* extract_salary(text) on a text holding a single amount
ExtractSalarySingle(pre, sign, n, commas, post) ==
    /\ fn = "none"
    /\ fn' = "extract_salary"
    /\ arg' = [kind |-> "single", sign |-> sign, a |-> n, b |-> n,
               text |-> SingleText(pre, sign, n, commas, post)]
    /\ ret' = SalaryRet(SingleText(pre, sign, n, commas, post))
    /\ UNCHANGED <<scrapeVars, apiVars>>

\* extract_salary(text) on any other text
ExtractSalaryOther(text) ==
    /\ fn = "none"
    /\ fn' = "extract_salary"
    /\ arg' = [kind |-> IF text \in NoAmountTexts THEN "no amount" ELSE "other",
               text |-> text]
    /\ ret' = SalaryRet(text)
    /\ UNCHANGED <<scrapeVars, apiVars>>

\* the caller is done with the result
TextReturn ==
    /\ fn # "none"
    /\ fn' = "none"
    /\ arg' = NoArg
    /\ ret' = NoRet
    /\ UNCHANGED <<scrapeVars, apiVars>>

TextNext ==
    \/ \E pre \in Prefixes, sign \in Signs, a \in Amounts, sep \in Separators,
          b \in Amounts, commas \in BOOLEAN, post \in Suffixes :
            ExtractSalaryRange(pre, sign, a, sep, b, commas, post)
    \/ \E pre \in Prefixes, sign \in Signs \cup {""}, n \in Amounts,
          commas \in BOOLEAN, post \in Suffixes :
            ExtractSalarySingle(pre, sign, n, commas, post)
    \/ \E text \in NoAmountTexts \cup OtherSalaryTexts : ExtractSalaryOther(text)
    \/ TextReturn

TextSpec == Init /\ [][TextNext]_vars

-----------------------------------------------------------------------------
(* services/ai.py: calculate_match_score *)

\* regex \w: a letter, a digit or the underscore
WordChars == UpperSet \cup LowerSet \cup DigitSet \cup {"_"}

IsWordCh(c) == c \in WordChars

\* regex \b before position i of s (i = Len(s) + 1: at the end)
BoundaryAt(s, i) ==
    (i > 1 /\ IsWordCh(Ch(s, i - 1))) # (i <= Len(s) /\ IsWordCh(Ch(s, i)))

\* the search without its \b anchors
SearchUnanchored(word, job_text) == Contains(word, job_text)

\* re.search(r'\b' + re.escape(word) + r'\b', job_text)
SearchWholeWord(word, job_text) ==
    \E i \in 1..(Len(job_text) - Len(word) + 1) :
        /\ SubSeq(job_text, i, i + Len(word) - 1) = word
        /\ BoundaryAt(job_text, i)
        /\ BoundaryAt(job_text, i + Len(word))

\* job_text = f"{job_title} {job_description}".lower()
JobText(job_title, job_description) ==
    Lower(job_title \o " " \o job_description)

\* the lowercased form kept instead of the skill
AppendedLower(skill) == Lower(skill)

\* matched_skills.append(skill)
Appended(skill) == skill

RECURSIVE MatchedSkills(_, _)
\* the loop over user_skills
MatchedSkills(user_skills, job_text) ==
    IF user_skills = <<>> THEN <<>>
    ELSE (IF SearchWholeWord(Lower(Head(user_skills)), job_text)
          THEN <<Appended(Head(user_skills))>> ELSE <<>>)
         \o MatchedSkills(Tail(user_skills), job_text)

\* [s for s in user_skills if s not in matched_skills]
MissingSkills(user_skills, matched_skills) ==
    LET In(s) == \E k \in 1..Len(matched_skills) : matched_skills[k] = s
        NotIn(s) == ~In(s)
    IN  SelectSeq(user_skills, NotIn)

\* the words of sklearn's English stop list that the texts of the model use
english_stop_words == {"we", "with", "and", "go", "the", "to", "of", "for"}

\* the last character of the run of word characters that starts at i
RunEnd(s, i) ==
    CHOOSE e \in i..Len(s) :
        /\ \A j \in i..e : IsWordCh(Ch(s, j))
        /\ e = Len(s) \/ ~IsWordCh(Ch(s, e + 1))

\* the terms TfidfVectorizer(stop_words='english') keeps of a document:
\* lowercased runs of two or more word characters that are not stop words
Terms(doc) ==
    LET s == Lower(doc)
        starts == {i \in 1..Len(s) :
                        IsWordCh(Ch(s, i)) /\ (i = 1 \/ ~IsWordCh(Ch(s, i - 1)))}
        runs == {SubSeq(s, i, RunEnd(s, i)) : i \in starts}
    IN  {t \in runs : Len(t) >= 2 /\ t \notin english_stop_words}

RECURSIVE JoinSkills(_)
\* ' '.join(user_skills)
JoinSkills(user_skills) ==
    IF user_skills = <<>> THEN ""
    ELSE IF Len(user_skills) = 1 THEN Head(user_skills)
    ELSE Head(user_skills) \o " " \o JoinSkills(Tail(user_skills))

\* user_profile_text = f"{target_role} {' '.join(user_skills)}"
ProfileText(target_role, user_skills) ==
    target_role \o " " \o JoinSkills(user_skills)

\* the cosine similarity is a real number; the model keeps it in steps of
\* 1/SimSteps
SimSteps == 4

(* What the try block can do.  fit_transform raises ValueError (empty        *)
(* vocabulary) when neither document keeps a term; the cosine of two TF-IDF   *)
(* rows is 0 when they share no term and lies in (0, 1] when they share one:  *)
(* its value there is the library's arithmetic, any step of the grid here.    *)
Vectorizations(profile_text, job_text) ==
    LET P == Terms(profile_text)
        J == Terms(job_text)
    IN  IF P \cup J = {} THEN {[raised |-> TRUE, sim |-> 0]}
        ELSE IF P \cap J = {} THEN {[raised |-> FALSE, sim |-> 0]}
        ELSE {[raised |-> FALSE, sim |-> k] : k \in 1..SimSteps}

\* round(x, 2) of x = num / den hundredths, as a number of hundredths
RoundHundredths(num, den) ==
    LET q == num \div den
        r == num % den
    IN  IF 2 * r < den THEN q
        ELSE IF 2 * r > den THEN q + 1
        ELSE IF q % 2 = 0 THEN q ELSE q + 1

\* the score without the cap at 100 and with the weights added up wrongly
FinalScoreSum(m, n, k) == RoundHundredths(10000 * (m * SimSteps + k * n), n * SimSteps)

\* round(min(100.0, (m / n * 0.5 + k / SimSteps * 0.5) * 100), 2), in hundredths
FinalScore(m, n, k) ==
    LET num == 5000 * (m * SimSteps + k * n)
        den == n * SimSteps
    IN  IF num > 10000 * den THEN 10000 ELSE RoundHundredths(num, den)

\* the fallback taking the texts for identical
FallbackSimilarityFull == SimSteps

\* except: semantic_similarity = 0.0
FallbackSimilarity == 0

\* calculate_match_score with the vectorization going the way v
calculate_match_score(user_skills, target_role, job_title, job_description, v) ==
    IF user_skills = <<>>
    THEN [kind |-> "score", score |-> 0, matched |-> <<>>, missing |-> <<>>,
          vectorized |-> "not tried", sim |-> 0]
    ELSE LET job_text == JobText(job_title, job_description)
             matched_skills == MatchedSkills(user_skills, job_text)
         IN  [kind |-> "score",
              score |-> FinalScore(Len(matched_skills), Len(user_skills),
                                   IF v.raised THEN FallbackSimilarity
                                   ELSE v.sim),
              matched |-> matched_skills,
              missing |-> MissingSkills(user_skills, matched_skills),
              vectorized |-> IF v.raised THEN "raised" ELSE "ok",
              sim |-> IF v.raised THEN FallbackSimilarity ELSE v.sim]

MaxUserSkills == 3
SkillNames == {"Python", "SQL", "Go", "go", "C", "R"}
RECURSIVE SkillLists(_)
SkillLists(n) ==
    IF n = 0 THEN {<<>>}
    ELSE SkillLists(n - 1)
         \cup {Append(l, s) : l \in {x \in SkillLists(n - 1) : Len(x) = n - 1},
                              s \in SkillNames}
TargetRoles == {"", "Backend Developer"}
JobPostings ==
    {[title |-> "Python Backend Developer",
      description |->
        "We need a Python developer with SQL and FastAPI experience."],
     [title |-> "C", description |-> "go"],
     [title |-> "", description |-> "ongoing work"]}

CalculateMatchScore(user_skills, target_role, job) ==
    /\ fn = "none"
    /\ \E v \in Vectorizations(ProfileText(target_role, user_skills),
                               JobText(job.title, job.description)) :
            ret' = calculate_match_score(user_skills, target_role, job.title,
                                         job.description, v)
    /\ fn' = "calculate_match_score"
    /\ arg' = [kind |-> "score", user_skills |-> user_skills,
               target_role |-> target_role, job_title |-> job.title,
               job_description |-> job.description]
    /\ UNCHANGED <<scrapeVars, apiVars>>

ScoreNext ==
    \/ \E user_skills \in SkillLists(MaxUserSkills), target_role \in TargetRoles,
          job \in JobPostings :
            CalculateMatchScore(user_skills, target_role, job)
    \/ TextReturn

ScoreSpec == Init /\ [][ScoreNext]_vars

-----------------------------------------------------------------------------
(* routers/resume.py: extract_text_from_resume *)

\* filename.endswith(suffix)
EndsWith(s, suffix) ==
    Len(s) >= Len(suffix) /\ SubSeq(s, Len(s) - Len(suffix) + 1, Len(s)) = suffix

HTTPException(status_code, detail) ==
    [kind |-> "HTTPException", status_code |-> status_code, detail |-> detail]

(* str(e) of an HTTPException: "<status>: <detail>" where the installed       *)
(* Starlette defines __str__ so, the empty string where it does not.          *)
StrOfHTTPException(e) == {ToDigits(e.status_code) \o ": " \o e.detail, ""}

RECURSIVE JoinEach(_, _)
\* text += part + end, for every part
JoinEach(parts, end) ==
    IF parts = <<>> THEN ""
    ELSE Head(parts) \o end \o JoinEach(Tail(parts), end)

RECURSIVE TablesText(_)
\* for row in table.rows: (for cell in row.cells: text += cell.text + " ");
\* text += "\n"; the rows of all the tables in order
TablesText(rows) ==
    IF rows = <<>> THEN ""
    ELSE JoinEach(Head(rows), " ") \o "\n" \o TablesText(Tail(rows))

\* except Exception as e: raise HTTPException(400, f"Failed to read file: {str(e)}")
ReadFailure(e, str) == HTTPException(400, "Failed to read file: " \o str)

\* what the try block of extract_text_from_resume does: it returns a text or
\* raises e
ReadAttempt(file_content, filename) ==
    IF EndsWith(filename, ".pdf")
    THEN IF file_content.format = "pdf"
         THEN [kind |-> "text", text |-> JoinEach(file_content.parts, "\n")]
         ELSE [kind |-> "error", str |-> "EOF marker not found"]
    ELSE IF EndsWith(filename, ".docx")
    THEN IF file_content.format = "docx"
         THEN [kind |-> "text",
               text |-> JoinEach(file_content.parts, "\n")
                            \o TablesText(file_content.rows)]
         ELSE [kind |-> "error", str |-> "File is not a zip file"]
    ELSE HTTPException(400, "Unsupported file format")

\* the outcomes of extract_text_from_resume(file_content, filename)
extract_text_from_resume(file_content, filename) ==
    LET a == ReadAttempt(file_content, filename)
    IN  IF a.kind = "text" THEN {a}
        ELSE IF a.kind = "HTTPException"
        THEN {ReadFailure(a, str) : str \in StrOfHTTPException(a)}
        ELSE {ReadFailure(a, a.str)}

Filenames == {"cv.pdf", "cv.docx", "cv.txt", "cv.PDF", "cv.doc", "cv"}
FileContents ==
    {[format |-> "pdf", parts |-> <<"Jane Doe", "Python Developer">>,
      rows |-> <<>>],
     [format |-> "pdf", parts |-> <<>>, rows |-> <<>>],
     [format |-> "docx", parts |-> <<"Jane Doe">>,
      rows |-> <<<<"Skills", "SQL">>, <<"City", "Boston">>>>],
     [format |-> "garbage", parts |-> <<>>, rows |-> <<>>]}

-----------------------------------------------------------------------------
(* routers/resume.py: parse_resume_text *)

RECURSIVE SplitLines(_)
\* text.split('\n')
SplitLines(text) ==
    LET nl == FindCh("\n", text)
    IN  IF nl = 0 THEN <<text>>
        ELSE <<SubSeq(text, 1, nl - 1)>>
                \o SplitLines(SubSeq(text, nl + 1, Len(text)))

Strip(line) == RStrip(LStrip(line))

\* len(s.split()): the number of runs of non-space characters
WordCount(s) ==
    Cardinality({i \in 1..Len(s) :
                    ~IsSpace(Ch(s, i)) /\ (i = 1 \/ IsSpace(Ch(s, i - 1)))})

\* [line.strip() for line in text.split('\n') if line.strip()]
StrippedLines(text) ==
    LET NonBlank(line) == Strip(line) # ""
        kept == SelectSeq(SplitLines(text), NonBlank)
    IN  [k \in 1..Len(kept) |-> Strip(kept[k])]

FullNameOf(text) ==
    LET lines == StrippedLines(text)
    IN  IF lines # <<>> /\ WordCount(lines[1]) <= 4
                /\ Ch(lines[1], 1) \in UpperSet
        THEN lines[1]
        ELSE None

title_keywords ==
    <<"Software Engineer", "Developer", "Data Scientist", "Product Manager",
      "Designer", "Analyst", "Marketing", "Sales", "Manager", "Director",
      "Frontend", "Backend", "Full Stack", "DevOps", "ML Engineer",
      "UX Designer", "UI Designer", "Project Manager", "QA Engineer">>

\* 1-based position of the first occurrence of p in s, 0 when there is none
Find(p, s) ==
    LET at == {i \in 1..(Len(s) - Len(p) + 1) : SubSeq(s, i, i + Len(p) - 1) = p}
    IN  IF at = {} THEN 0 ELSE CHOOSE i \in at : \A j \in at : i <= j

\* the keyword that occurs first in the document
TargetRoleByPosition(text) ==
    LET text_lower == Lower(text)
        hits == {k \in 1..Len(title_keywords) :
                    Contains(Lower(title_keywords[k]), text_lower)}
        Pos(k) == Find(Lower(title_keywords[k]), text_lower)
    IN  IF hits = {} THEN None
        ELSE title_keywords[CHOOSE k \in hits :
                \A j \in hits : Pos(k) < Pos(j) \/ (Pos(k) = Pos(j) /\ k <= j)]

\* for keyword in title_keywords: if keyword.lower() in text_lower: ...; break
TargetRoleOf(text) ==
    LET text_lower == Lower(text)
        hits == {k \in 1..Len(title_keywords) :
                    Contains(Lower(title_keywords[k]), text_lower)}
    IN  IF hits = {} THEN None
        ELSE title_keywords[CHOOSE k \in hits : \A j \in hits : k <= j]

\* the alternatives of each pattern, in order (Node\.?js: with and without dot)
skill_patterns ==
    <<
      <<"Python", "JavaScript", "Java", "C++", "C#", "Ruby", "PHP", "Swift",
        "Kotlin", "Go", "Rust", "TypeScript">>,
      <<"React", "Angular", "Vue", "Node.js", "Nodejs", "Django", "Flask",
        "Spring", ".NET", "Laravel", "Rails">>,
      <<"SQL", "MySQL", "PostgreSQL", "MongoDB", "Redis", "Oracle", "SQLite">>,
      <<"AWS", "Azure", "GCP", "Docker", "Kubernetes", "Jenkins", "Git",
        "CI/CD">>,
      <<"HTML", "CSS", "REST", "GraphQL", "API", "Agile", "Scrum",
        "Machine Learning", "AI", "Data Analysis">>
    >>

location_alternatives ==
    <<"New York", "San Francisco", "Los Angeles", "Chicago", "Boston",
      "Seattle", "Austin", "Denver", "Remote", "USA", "United States">>

\* the alternatives of \b(a1|a2|...)\b that match at position i of the text,
\* ignoring case
MatchingAt(alts, text, i) ==
    IF ~BoundaryAt(text, i) THEN {}
    ELSE {k \in 1..Len(alts) :
            /\ i + Len(alts[k]) - 1 <= Len(text)
            /\ BoundaryAt(text, i + Len(alts[k]))
            /\ Lower(SubSeq(text, i, i + Len(alts[k]) - 1)) = Lower(alts[k])}

\* the first position at or after i where the pattern matches, 0 when none
NextMatch(alts, text, i) ==
    LET at == {j \in i..Len(text) : MatchingAt(alts, text, j) # {}}
    IN  IF at = {} THEN 0 ELSE CHOOSE j \in at : \A x \in at : j <= x

RECURSIVE FindAllFrom(_, _, _)
\* re.findall(pattern, text, re.IGNORECASE) from position i on: the matched
\* pieces of the text, as the text spells them, in document order
FindAllFrom(alts, text, i) ==
    LET j == NextMatch(alts, text, i)
    IN  IF j = 0 THEN <<>>
        ELSE LET M == MatchingAt(alts, text, j)
                 k == CHOOSE x \in M : \A y \in M : x <= y
                 e == j + Len(alts[k])
             IN  <<SubSeq(text, j, e - 1)>> \o FindAllFrom(alts, text, e)

FindAll(alts, text) == FindAllFrom(alts, text, 1)

\* skills_set after the loop over skill_patterns
SkillsSet(text) ==
    UNION {{m[k] : k \in 1..Len(m)} :
            m \in {FindAll(skill_patterns[p], text) : p \in 1..Len(skill_patterns)}}

MaxResumeSkills == 20

RECURSIVE Dropping(_, _)
\* the sets left of S after removing n of its elements
Dropping(S, n) ==
    IF n = 0 THEN {S}
    ELSE UNION {Dropping(S \ {x}, n - 1) : x \in S}

\* list(skills_set)[:20]: the first 20 in the set's iteration order, which is
\* any order
SkillsKept(skills_set) ==
    IF Cardinality(skills_set) <= MaxResumeSkills THEN {skills_set}
    ELSE Dropping(skills_set, Cardinality(skills_set) - MaxResumeSkills)

LocationOf(text) ==
    LET locations == FindAll(location_alternatives, text)
    IN  IF locations # <<>> THEN locations[1] ELSE None

\* the results parse_resume_text(text) can return
parse_resume_text(text) ==
    {[kind |-> "profile", full_name |-> FullNameOf(text),
      target_role |-> TargetRoleOf(text), skills |-> kept,
      location_preference |-> LocationOf(text)] :
        kept \in SkillsKept(SkillsSet(text))}

NameLines == {"Jane Doe", "curriculum vitae of jane in five words", ""}
RoleLines ==
    {"Backend Developer", "senior DEVELOPER and manager", "Product Manager",
     "QA Engineer, then Director", "chef"}
TwentyOneSkills ==
    "Python JavaScript Java Ruby PHP Swift Kotlin Go Rust TypeScript React "
        \o "Angular Vue Django Flask Spring SQL MySQL Redis AWS Azure"
SkillLines ==
    {"Python, React and PostgreSQL experience required",
     "python, REACT and postgresql; Python too",
     "C++ and .NET, ASP.NET, going places with Node.js",
     "", TwentyOneSkills}
LocationLines == {"", "remote or Boston"}

ResumeText(name, role, skills, location) ==
    name \o "\n" \o role \o "\n\n" \o skills \o "\n" \o location \o "\n"

ParseResumeText(name, role, skills, location) ==
    /\ fn = "none"
    /\ fn' = "parse_resume_text"
    /\ arg' = [kind |-> "text",
               text |-> ResumeText(name, role, skills, location)]
    /\ ret' \in parse_resume_text(ResumeText(name, role, skills, location))
    /\ UNCHANGED <<scrapeVars, apiVars>>

\* result as initialised, before any field is extracted
InitialResult ==
    [kind |-> "profile", full_name |-> None, target_role |-> None,
     skills |-> {}, location_preference |-> None]

\* str(e) of the exception text.split('\n') raises when text is of that type
SplitFailure ==
    [NoneType |-> "'NoneType' object has no attribute 'split'",
     bytes |-> "a bytes-like object is required, not 'str'",
     int |-> "'int' object has no attribute 'split'"]

NonTextTypes == DOMAIN SplitFailure

\* the handler returning what result holds when the exception arrives
ParseFailurePartial(str) == InitialResult

\* except Exception as e: raise HTTPException(400, f"Failed to parse resume: {str(e)}")
ParseFailure(str) == HTTPException(400, "Failed to parse resume: " \o str)

\* parse_resume_text(value) for a value that is no str: text.split raises
\* inside the try block, after result was initialised
ParseResumeNonText(type) ==
    /\ fn = "none"
    /\ fn' = "parse_resume_text"
    /\ arg' = [kind |-> "not text", type |-> type]
    /\ ret' = ParseFailure(SplitFailure[type])
    /\ UNCHANGED <<scrapeVars, apiVars>>

ExtractTextFromResume(file_content, filename) ==
    /\ fn = "none"
    /\ fn' = "extract_text_from_resume"
    /\ arg' = [kind |-> "file", file_content |-> file_content,
               filename |-> filename]
    /\ ret' \in extract_text_from_resume(file_content, filename)
    /\ UNCHANGED <<scrapeVars, apiVars>>

\* a resume whose only title keyword line is the keyword itself: every text
\* that holds the keyword holds this line's characters
KeywordResume(keyword) == ResumeText("Jane Doe", keyword, "", "")

ParseKeywordResume(k) ==
    /\ fn = "none"
    /\ fn' = "parse_resume_text"
    /\ arg' = [kind |-> "text", text |-> KeywordResume(title_keywords[k])]
    /\ ret' \in parse_resume_text(KeywordResume(title_keywords[k]))
    /\ UNCHANGED <<scrapeVars, apiVars>>

ResumeNext ==
    \/ \E file_content \in FileContents, filename \in Filenames :
            ExtractTextFromResume(file_content, filename)
    \/ \E type \in NonTextTypes : ParseResumeNonText(type)
    \/ \E k \in DOMAIN title_keywords : ParseKeywordResume(k)
    \/ \E name \in NameLines, role \in RoleLines, skills \in SkillLines,
          location \in LocationLines :
            ParseResumeText(name, role, skills, location)
    \/ TextReturn

ResumeSpec == Init /\ [][ResumeNext]_vars

-----------------------------------------------------------------------------
(* models.py: User; routers/users.py: create_user, get_user, update_user,    *)
(* delete_user. db.supplied is a history of the model: for each stored user  *)
(* the skills list the latest create_user or update_user request supplied.   *)

RECURSIVE SplitOn(_, _)
\* s.split(sep) for a one-character sep
SplitOn(sep, s) ==
    LET at == FindCh(sep, s)
    IN  IF at = 0 THEN <<s>>
        ELSE <<SubSeq(s, 1, at - 1)>> \o SplitOn(sep, SubSeq(s, at + 1, Len(s)))

RECURSIVE Join(_, _)
\* sep.join(parts)
Join(sep, parts) ==
    IF parts = <<>> THEN ""
    ELSE IF Len(parts) = 1 THEN parts[1]
    ELSE parts[1] \o sep \o Join(sep, Tail(parts))

\* User.skills_list of a row whose skills column holds skills
skills_list(skills) ==
    IF skills = None \/ skills = "" THEN <<>>
    ELSE LET NonBlank(part) == Strip(part) # ""
             kept == SelectSeq(SplitOn(",", skills), NonBlank)
         IN  [k \in 1..Len(kept) |-> Strip(kept[k])]

UserIds == 1..MaxUserId

UserById(user_id) == {u \in db.users : u.id = user_id}

\* UserResponse.model_validate(user); response.skills = user.skills_list
UserResponse(user) ==
    [id |-> user.id, email |-> user.email, full_name |-> user.full_name,
     target_role |-> user.target_role,
     skills |-> skills_list(user.skills),
     location_preference |-> user.location_preference]

Response(status_code, body) ==
    [kind |-> "response", status_code |-> status_code, body |-> body]

\* an exception no handler catches: the request ends with status 500
Unhandled(type) == [kind |-> "unhandled", status_code |-> 500, type |-> type]

\* a users table without the unique index on email
UniqueViolationNever(users, email) == FALSE

\* email = Column(String(255), unique=True): inserting the email is refused
UniqueViolation(users, email) == \E u \in users : u.email = email

\* create_user up to its lookup: the email is taken, or the handler goes on
CreateUserLookup(w, user_data) ==
    /\ fn = "none"
    /\ pending[w] = Idle
    /\ IF \E u \in db.users : u.email = user_data.email
       THEN /\ fn' = "create_user"
            /\ arg' = [kind |-> "user", user_data |-> user_data]
            /\ ret' = HTTPException(400, "Email already registered")
            /\ UNCHANGED pending
       ELSE /\ pending' = [pending EXCEPT ![w] = user_data]
            /\ UNCHANGED libVars
    /\ UNCHANGED <<scrapeVars, db>>

\* the row create_user builds
NewUser(id, user_data) ==
    [id |-> id, email |-> user_data.email, full_name |-> user_data.full_name,
     target_role |-> user_data.target_role,
     skills |-> IF user_data.skills # <<>>
                THEN Join(",", user_data.skills) ELSE None,
     location_preference |-> user_data.location_preference]

\* create_user from db.add on: the commit inserts the row under an id the
\* table does not hold, or the unique index refuses it
CreateUserCommit(w, id) ==
    /\ fn = "none"
    /\ pending[w] # Idle
    /\ id \notin {u.id : u \in db.users}
    /\ fn' = "create_user"
    /\ arg' = [kind |-> "user", user_data |-> pending[w]]
    /\ pending' = [pending EXCEPT ![w] = Idle]
    /\ IF UniqueViolation(db.users, pending[w].email)
       THEN /\ ret' = Unhandled("IntegrityError")
            /\ UNCHANGED db
       ELSE LET row == NewUser(id, pending[w])
            IN  /\ db' = [db EXCEPT
                            !.users = @ \cup {row},
                            !.supplied = (id :> pending[w].skills) @@ @]
                /\ ret' = Response(201, UserResponse(row))
    /\ UNCHANGED scrapeVars

NotFound(what, id) ==
    HTTPException(404, what \o " with id " \o ToDigits(id) \o " not found")

get_user(user_id) ==
    /\ fn = "none"
    /\ fn' = "get_user"
    /\ arg' = [kind |-> "id", user_id |-> user_id]
    /\ ret' = IF UserById(user_id) = {} THEN NotFound("User", user_id)
              ELSE LET user == CHOOSE u \in UserById(user_id) : TRUE
                   IN  Response(200, UserResponse(user))
    /\ UNCHANGED <<scrapeVars, apiVars>>

\* a JSON list of strings in a request body, and a JSON null
List(items) == [kind |-> "list", items |-> items]
Null == [kind |-> "null"]

\* update_data after the skills conversion: the column values to set
UpdateData(user_data) ==
    [field \in DOMAIN user_data |->
        IF field = "skills"
        THEN IF user_data.skills.kind = "list"
             THEN Join(",", user_data.skills.items) ELSE None
        ELSE user_data[field]]

\* for field, value in update_data.items(): setattr(row, field, value)
SetAttrs(row, update_data) ==
    [field \in DOMAIN row |->
        IF field \in DOMAIN update_data THEN update_data[field] ELSE row[field]]

\* user_data holds the fields the request set (model_dump(exclude_unset=True))
update_user(user_id, user_data) ==
    /\ fn = "none"
    /\ fn' = "update_user"
    /\ arg' = [kind |-> "update", user_id |-> user_id, user_data |-> user_data]
    /\ IF UserById(user_id) = {}
       THEN /\ ret' = NotFound("User", user_id)
            /\ UNCHANGED db
       ELSE LET user == CHOOSE u \in UserById(user_id) : TRUE
                row == SetAttrs(user, UpdateData(user_data))
            IN  /\ db' = [db EXCEPT
                            !.users = (@ \ {user}) \cup {row},
                            !.supplied =
                                IF "skills" \notin DOMAIN user_data THEN @
                                ELSE IF user_data.skills.kind = "list"
                                THEN [@ EXCEPT ![user_id] = user_data.skills.items]
                                ELSE [@ EXCEPT ![user_id] = <<>>]]
                /\ ret' = Response(200, UserResponse(row))
    /\ UNCHANGED <<scrapeVars, pending>>

\* the user's row alone deleted
DeleteUserRow(user_id) ==
    [db EXCEPT !.users = {u \in @ : u.id # user_id},
               !.supplied = [i \in DOMAIN @ \ {user_id} |-> @[i]]]

\* db.delete(user) with jobs and job_alerts declared cascade="all, delete-orphan"
DeleteCascade(user_id) ==
    [users |-> {u \in db.users : u.id # user_id},
     jobs |-> {j \in db.jobs : j.user_id # user_id},
     alerts |-> {a \in db.alerts : a.user_id # user_id},
     supplied |-> [i \in DOMAIN db.supplied \ {user_id} |-> db.supplied[i]]]

delete_user(user_id) ==
    /\ fn = "none"
    /\ fn' = "delete_user"
    /\ arg' = [kind |-> "id", user_id |-> user_id]
    /\ IF UserById(user_id) = {}
       THEN /\ ret' = NotFound("User", user_id)
            /\ UNCHANGED db
       ELSE /\ db' = DeleteCascade(user_id)
            /\ ret' = Response(204, None)
    /\ UNCHANGED <<scrapeVars, pending>>

Emails == {"ann@x.io", "bob@x.io"}
SkillLists2 == {<<>>, <<"JavaScript", "TypeScript">>}
LossySkillLists == {<<"HTML, CSS", "SQL">>, <<" Go ", "">>}

UserCreate(email, skills) ==
    [email |-> email, full_name |-> None, target_role |-> None,
     skills |-> skills, location_preference |-> None]

UserUpdates ==
    {[skills |-> List(l)] : l \in SkillLists2 \cup LossySkillLists}
        \cup {[skills |-> Null], [full_name |-> "Updated Name"],
              [full_name |-> "Updated Name",
               skills |-> List(<<"JavaScript", "TypeScript">>)]}

UsersNext ==
    \/ \E w \in Workers, email \in Emails,
          skills \in SkillLists2 \cup {<<"HTML, CSS", "SQL">>} :
            CreateUserLookup(w, UserCreate(email, skills))
    \/ \E w \in Workers, id \in UserIds : CreateUserCommit(w, id)
    \/ \E user_id \in UserIds : get_user(user_id)
    \/ \E user_id \in UserIds, user_data \in UserUpdates :
            update_user(user_id, user_data)
    \/ \E user_id \in UserIds : delete_user(user_id)
    \/ TextReturn

UsersSpec == Init /\ [][UsersNext]_vars

-----------------------------------------------------------------------------
(* models.py: Job; routers/jobs.py: create_job, update_job, delete_job *)

JobIds == 1..MaxJobId

JobById(job_id) == {j \in db.jobs : j.id = job_id}

JobStatus == {"saved", "applied", "interview", "offer", "rejected"}

\* the columns of jobs declared nullable=False that a request can set
NotNullColumns == {"title", "company", "description", "status"}

\* the commit of the row is refused: a NOT NULL column holds None
NotNullViolation(row) == \E column \in NotNullColumns : row[column] = None

\* job_request: job_data, the JobCreate of the request; id: one the table
\* does not hold
create_job(user_id, job_request, id) ==
    /\ fn = "none"
    /\ id \notin {j.id : j \in db.jobs}
    /\ fn' = "create_job"
    /\ arg' = [kind |-> "job", user_id |-> user_id, job_data |-> job_request]
    /\ IF UserById(user_id) = {}
       THEN /\ ret' = NotFound("User", user_id)
            /\ UNCHANGED db
       ELSE LET db_job == [id |-> id, user_id |-> user_id,
                           title |-> job_request.title,
                           company |-> job_request.company,
                           location |-> job_request.location,
                           description |-> job_request.description,
                           status |-> "saved", notes |-> None]
            IN  /\ db' = [db EXCEPT !.jobs = @ \cup {db_job}]
                /\ ret' = Response(201, db_job)
    /\ UNCHANGED <<scrapeVars, pending>>

\* job_request: job_data, which holds the fields the request set
\* (model_dump(exclude_unset=True))
update_job(job_id, job_request) ==
    /\ fn = "none"
    /\ fn' = "update_job"
    /\ arg' = [kind |-> "update", job_id |-> job_id, job_data |-> job_request]
    /\ IF JobById(job_id) = {}
       THEN /\ ret' = NotFound("Job", job_id)
            /\ UNCHANGED db
       ELSE LET job == CHOOSE j \in JobById(job_id) : TRUE
                row == SetAttrs(job, job_request)
            IN  IF NotNullViolation(row)
                THEN /\ ret' = Unhandled("IntegrityError")
                     /\ UNCHANGED db
                ELSE /\ db' = [db EXCEPT !.jobs = (@ \ {job}) \cup {row}]
                     /\ ret' = Response(200, row)
    /\ UNCHANGED <<scrapeVars, pending>>

delete_job(job_id) ==
    /\ fn = "none"
    /\ fn' = "delete_job"
    /\ arg' = [kind |-> "id", job_id |-> job_id]
    /\ IF JobById(job_id) = {}
       THEN /\ ret' = NotFound("Job", job_id)
            /\ UNCHANGED db
       ELSE /\ db' = [db EXCEPT !.jobs = {j \in @ : j.id # job_id}]
            /\ ret' = Response(204, None)
    /\ UNCHANGED <<scrapeVars, pending>>

JobCreates ==
    {[title |-> "Test Job", company |-> "Test Company", location |-> "Remote",
      description |-> "Test description"]}

JobUpdates ==
    {[status |-> st] : st \in JobStatus}
        \cup {[title |-> "Senior Job", notes |-> "call back on Monday"],
              [location |-> None, status |-> "offer"],
              [title |-> None], [status |-> None], <<>>}

JobsNext ==
    \/ \E email \in Emails : CreateUserLookup(1, UserCreate(email, <<>>))
    \/ \E id \in UserIds : CreateUserCommit(1, id)
    \/ \E user_id \in UserIds : delete_user(user_id)
    \/ \E user_id \in UserIds, job_request \in JobCreates, id \in JobIds :
            create_job(user_id, job_request, id)
    \/ \E job_id \in JobIds, job_request \in JobUpdates : update_job(job_id, job_request)
    \/ \E job_id \in JobIds : delete_job(job_id)
    \/ TextReturn

JobsSpec == Init /\ [][JobsNext]_vars

-----------------------------------------------------------------------------
(* routers/resume.py: upload_resume *)

\* len(content) > 5 * 1024 * 1024
MaxUploadBytes == 5242880

\* the profile fields in the order upload_resume goes through them
ProfileColumns ==
    <<"full_name", "target_role", "skills", "location_preference">>

\* truth value of parsed_data[field]
ParsedTruthy(parsed_data, field) ==
    IF field = "skills" THEN parsed_data.skills # {}
    ELSE Truthy(parsed_data[field])

\* a test that lets every stored value be replaced
StoredEmptyAlways(value) == TRUE

\* not user.<field>
StoredEmpty(value) == ~Truthy(value)

\* updated_fields after the four tests
UpdatedFields(parsed_data, user) ==
    LET Taken(field) ==
            ParsedTruthy(parsed_data, field) /\ StoredEmpty(user[field])
    IN  SelectSeq(ProfileColumns, Taken)

\* the lists that hold the elements of S, each once
Orderings(S) ==
    {order \in [1..Cardinality(S) -> S] :
        \A i, j \in 1..Cardinality(S) : order[i] = order[j] => i = j}

(* user.skills = parsed_data["skills"] hands a list to the Text column. The  *)
(* commit binds it as the database driver allows: sqlite3 refuses a list,    *)
(* PostgreSQL converts the array to its text form '{a,b}'.                   *)
BoundSkills(skills) ==
    {[kind |-> "raised"]}
        \cup {[kind |-> "stored", value |-> "{" \o Join(",", order) \o "}"] :
                order \in Orderings(skills)}

UploadResponse(parsed_data, updated_fields, user) ==
    Response(200,
        [message |-> "Resume parsed successfully",
         parsed_data |-> parsed_data,
         updated_fields |-> updated_fields,
         user |-> [field \in {"full_name", "target_role", "skills",
                              "location_preference"} |-> user[field]]])

\* upload_resume from the update of the profile on: what the request is
\* answered with, and the user's row afterwards
AfterParse(user, parsed_data) ==
    LET updated_fields == UpdatedFields(parsed_data, user)
        set == {updated_fields[k] : k \in 1..Len(updated_fields)}
        others == [field \in set \ {"skills"} |-> parsed_data[field]]
    IN  IF "skills" \notin set
        THEN {[ret |-> UploadResponse(parsed_data, updated_fields,
                                      SetAttrs(user, others)),
               row |-> SetAttrs(user, others)]}
        ELSE {IF bound.kind = "raised"
              THEN [ret |-> Unhandled("InterfaceError"), row |-> user]
              ELSE LET row == [SetAttrs(user, others)
                                    EXCEPT !.skills = bound.value]
                   IN  [ret |-> UploadResponse(parsed_data, updated_fields, row),
                        row |-> row] :
                bound \in BoundSkills(parsed_data.skills)}

\* upload_resume from extract_text_from_resume on
AfterValidation(user, file) ==
    UNION {IF text.kind # "text" THEN {[ret |-> text, row |-> user]}
           ELSE UNION {AfterParse(user, parsed_data) :
                        parsed_data \in parse_resume_text(text.text)} :
            text \in extract_text_from_resume(file.content, file.filename)}

UploadOutcomes(user, file) ==
    IF ~(EndsWith(file.filename, ".pdf") \/ EndsWith(file.filename, ".docx"))
    THEN {[ret |-> HTTPException(400, "Only PDF and DOCX files are supported"),
           row |-> user]}
    ELSE IF file.size > MaxUploadBytes
    THEN {[ret |-> HTTPException(400, "File size must be less than 5MB"),
           row |-> user]}
    ELSE AfterValidation(user, file)

\* user_id: current_user.id, the user get_current_user found for the token
upload_resume(user_id, file) ==
    /\ fn = "none"
    /\ UserById(user_id) # {}
    /\ fn' = "upload_resume"
    /\ arg' = [kind |-> "upload", user_id |-> user_id, file |-> file]
    /\ LET user == CHOOSE u \in UserById(user_id) : TRUE
       IN  \E outcome \in UploadOutcomes(user, file) :
                /\ ret' = outcome.ret
                /\ db' = [db EXCEPT !.users = (@ \ {user}) \cup {outcome.row}]
    /\ UNCHANGED <<scrapeVars, pending>>

UploadFiles ==
    {[filename |-> filename, size |-> size, content |-> content] :
        filename \in {"cv.pdf", "cv.docx", "cv.txt"},
        size \in {2048, MaxUploadBytes, MaxUploadBytes + 1},
        content \in FileContents}

UploadUserCreates ==
    {UserCreate("ann@x.io", <<>>),
     [email |-> "bob@x.io", full_name |-> "Bob Roe", target_role |-> None,
      skills |-> <<"Go">>, location_preference |-> None],
     [email |-> "bob@x.io", full_name |-> None, target_role |-> "Designer",
      skills |-> <<>>, location_preference |-> "Denver"]}

UploadNext ==
    \/ \E user_data \in UploadUserCreates : CreateUserLookup(1, user_data)
    \/ \E id \in UserIds : CreateUserCommit(1, id)
    \/ \E user_id \in UserIds, file \in UploadFiles : upload_resume(user_id, file)
    \/ TextReturn

UploadSpec == Init /\ [][UploadNext]_vars

-----------------------------------------------------------------------------
(* models.py: JobAlert; routers/alerts.py: create_job_alert, check_alert_now *)

AlertIds == 1..MaxAlertId

\* JobAlert.keywords_list
keywords_list(keywords) ==
    IF keywords = None \/ keywords = "" THEN <<>>
    ELSE LET NonBlank(part) == Strip(part) # ""
             kept == SelectSeq(SplitOn(",", keywords), NonBlank)
         IN  [k \in 1..Len(kept) |-> Strip(kept[k])]

\* user_id: current_user.id; id: one the table does not hold
create_job_alert(user_id, alert, id) ==
    /\ fn = "none"
    /\ UserById(user_id) # {}
    /\ id \notin {a.id : a \in db.alerts}
    /\ fn' = "create_job_alert"
    /\ arg' = [kind |-> "alert", user_id |-> user_id, alert |-> alert]
    /\ LET db_alert == [id |-> id, user_id |-> user_id,
                        keywords |-> alert.keywords,
                        min_match_score |-> alert.min_match_score,
                        last_checked |-> None]
       IN  /\ db' = [db EXCEPT !.alerts = @ \cup {db_alert}]
           /\ ret' = Response(201, db_alert)
    /\ UNCHANGED <<scrapeVars, pending>>

\* any(keyword.lower() in job_text for keyword in keywords)
KeywordMatches(keywords, job) ==
    LET job_text == Lower(job.title \o " " \o job.description)
    IN  \E k \in 1..Len(keywords) : Contains(Lower(keywords[k]), job_text)

(* calculate_match_score(user_skills=..., job_description=..., job_title=...) *)
(* as check_alert_now calls it: the function has a fourth parameter,          *)
(* target_role, without a default, so the call raises before it computes      *)
MatchScoreCall(user_skills, job_description, job_title) ==
    [kind |-> "raised", type |-> "TypeError",
     str |-> "calculate_match_score() missing 1 required positional "
                \o "argument: 'target_role'"]

\* the entry of matching_jobs for a job, appended when the user has no skills
Unscored(job) ==
    [id |-> job.id, title |-> job.title, company |-> job.company,
     match_score |-> None]

\* user_id: current_user.id. No more than five jobs are stored, so that
\* matching_jobs[:5] keeps them all, and they are held as a set.
check_alert_now(alert_id, user_id) ==
    /\ fn = "none"
    /\ UserById(user_id) # {}
    /\ fn' = "check_alert_now"
    /\ arg' = [kind |-> "check", alert_id |-> alert_id, user_id |-> user_id]
    /\ LET current_user == CHOOSE u \in UserById(user_id) : TRUE
           found == {a \in db.alerts : a.id = alert_id /\ a.user_id = user_id}
       IN  IF found = {}
           THEN /\ ret' = HTTPException(404, "Job alert not found")
                /\ UNCHANGED db
           ELSE LET alert == CHOOSE a \in found : TRUE
                    keywords == keywords_list(alert.keywords)
                    all_jobs == {j \in db.jobs : j.user_id # user_id}
                    hits == {j \in all_jobs : KeywordMatches(keywords, j)}
                    Call(j) == MatchScoreCall(skills_list(current_user.skills),
                                              j.description, j.title)
                IN  IF /\ Truthy(current_user.skills)
                       /\ \E j \in hits : Call(j).kind = "raised"
                    THEN /\ ret' = Unhandled("TypeError")
                         /\ UNCHANGED db
                    ELSE /\ db' = [db EXCEPT !.alerts = (@ \ {alert}) \cup
                                    {[alert EXCEPT !.last_checked = "utcnow"]}]
                         /\ ret' = Response(200,
                                [alert_id |-> alert_id, keywords |-> keywords,
                                 min_match_score |-> alert.min_match_score,
                                 matching_jobs_found |-> Cardinality(hits),
                                 jobs |-> {Unscored(j) : j \in hits}])
    /\ UNCHANGED <<scrapeVars, pending>>

AlertCreates ==
    {[keywords |-> "python, django", min_match_score |-> 70],
     [keywords |-> "sales", min_match_score |-> 0]}

AlertJobCreates ==
    {[title |-> "Backend Developer", company |-> "Tech Corp",
      location |-> "Remote",
      description |-> "Looking for a Python developer."],
     [title |-> "Sales Manager", company |-> "Acme", location |-> None,
      description |-> "Sell things."]}

AlertsNext ==
    \/ \E email \in Emails, skills \in {<<>>, <<"Python", "Django">>} :
            CreateUserLookup(1, UserCreate(email, skills))
    \/ \E id \in UserIds : CreateUserCommit(1, id)
    \/ \E user_id \in UserIds, job_request \in AlertJobCreates, id \in JobIds :
            create_job(user_id, job_request, id)
    \/ \E user_id \in UserIds, alert \in AlertCreates, id \in AlertIds :
            create_job_alert(user_id, alert, id)
    \/ \E alert_id \in AlertIds, user_id \in UserIds :
            check_alert_now(alert_id, user_id)
    \/ TextReturn

AlertsSpec == Init /\ [][AlertsNext]_vars

-----------------------------------------------------------------------------
(* Properties of fetch_page *)

\* fetch_page has returned or raised
FetchOver == fetchRet # "pending"

\* every answered attempt of the call failed with a transport error
AllTransport == \A i \in 1..Len(outcomes) : outcomes[i] = "transport"

IsBackoff(x) == x.kind = "backoff"
IsPre(x) == x.kind = "pre"
Backoffs == SelectSeq(sleeps, IsBackoff)
PreSleeps == SelectSeq(sleeps, IsPre)

\* the number of answered attempts that failed with a transport error
TransportFailures == Cardinality({i \in 1..Len(outcomes) : outcomes[i] = "transport"})

RECURSIVE TotalSleep(_)
TotalSleep(q) == IF q = <<>> THEN 0 ELSE Head(q).dur + TotalSleep(Tail(q))

\* 1 + 2 + ... + n
Triangle(n) == (n * (n + 1)) \div 2

(* C1: the GET attempts of a fetch_page call are issued one after another    *)
(* (never two outstanding, each answered before the next is issued), never   *)
(* more than `retries` of them; when the call returns the document the last  *)
(* attempt is the first successful one, and a success always returns the     *)
(* document; when retries >= 1 and every attempt failed with a transport     *)
(* error the call has made exactly `retries` attempts and returns None.      *)
C1_Attempts ==
    /\ inflight \in {0, 1}
    /\ Len(outcomes) = gets - inflight
    /\ gets <= retries
    /\ fetchRet = "doc" =>
            /\ inflight = 0
            /\ gets >= 1
            /\ outcomes[gets] = "ok"
            /\ \A i \in 1..(gets - 1) : outcomes[i] # "ok"
    /\ (outcomes # <<>> /\ outcomes[Len(outcomes)] = "ok") => fetchRet = "doc"
    /\ (FetchOver /\ retries >= 1 /\ AllTransport) =>
            gets = retries /\ fetchRet = "None"

\* a direct call that failed MaxRetries times in a row and gave up
C1_Witness ==
    /\ pc = "done"
    /\ mode = "fetch_page"
    /\ retries = MaxRetries
    /\ AllTransport
    /\ gets = retries
    /\ result.kind = "None"

(* C2 as stated: once all `retries` attempts of a call have failed, there is *)
(* a backoff sleep of delay * k after the k-th failed attempt for every      *)
(* k = 1..retries.                                                           *)
C2_BackoffAfterEveryFailure ==
    (FetchOver /\ retries >= 1 /\ AllTransport) =>
        \A k \in 1..retries :
            \E i \in 1..Len(sleeps) :
                /\ sleeps[i].kind = "backoff"
                /\ sleeps[i].n = k
                /\ sleeps[i].dur = delay * k

(* C2, amended: the i-th backoff sleep follows the i-th failed attempt and   *)
(* lasts delay * i; each of the first retries - 1 failed attempts is         *)
(* followed by one, and the retries-th failed attempt by none.               *)
C2_LinearBackoff ==
    /\ \A i \in 1..Len(Backoffs) :
            Backoffs[i].n = i /\ Backoffs[i].dur = delay * i
    /\ Len(Backoffs) =
            IF TransportFailures >= retries /\ retries >= 1
            THEN retries - 1
            ELSE TransportFailures

\* MaxRetries failures in a row with a non-zero delay: three backoff sleeps
C2_Witness ==
    /\ FetchOver
    /\ retries = MaxRetries
    /\ delay = MaxDelay
    /\ TransportFailures = retries
    /\ Len(Backoffs) = retries - 1

(* C3: every attempt is preceded by a sleep of `delay` (the sleep is the     *)
(* last thing the call did before it issued the GET), the first attempt      *)
(* included; and when all `retries` attempts have failed, the sleeps of the  *)
(* call add up to delay * (1 + 2 + ... + retries).                           *)
C3_Sleeps ==
    /\ \A i \in 1..Len(PreSleeps) :
            PreSleeps[i].n = i /\ PreSleeps[i].dur = delay
    /\ Len(PreSleeps) = gets + (IF pc = "fetch_get" THEN 1 ELSE 0)
    /\ pc = "fetch_wait" =>
            sleeps[Len(sleeps)].kind = "pre" /\ sleeps[Len(sleeps)].n = gets
    /\ (FetchOver /\ retries >= 1 /\ AllTransport) =>
            TotalSleep(sleeps) = delay * Triangle(retries)

\* a default-argument fetch (inside scrape_job) that failed three times
C3_Witness ==
    /\ pc = "done"
    /\ mode = "scrape_job"
    /\ fetchRet = "None"
    /\ gets = DefaultRetries
    /\ TotalSleep(sleeps) = 6

(* C4 as stated: no exception escapes fetch_page, whatever goes wrong in an  *)
(* attempt.                                                                  *)
C4_NothingEscapes == fetchRet # "raised"

(* C4, amended: a transport failure (a requests.RequestException: time-out,  *)
(* non-2xx status, connection error) never escapes: after it the call        *)
(* retries or returns None; any other failure of an attempt, such as         *)
(* BeautifulSoup rejecting the body, is not caught and escapes to the        *)
(* caller.                                                                   *)
C4_OnlyTransportCaught ==
    /\ lastExc \in RequestExceptions => fetchRet \in {"pending", "None"}
    /\ lastExc \in OtherExceptions => fetchRet = "raised"
    /\ fetchRet = "raised" => lastExc \in OtherExceptions

\* a retry after a non-2xx answer, then the parser's exception reaches the caller
C4_Witness ==
    /\ pc = "done"
    /\ mode = "fetch_page"
    /\ outcomes = <<"transport", "other">>
    /\ result.kind = "raised"

-----------------------------------------------------------------------------
(* Properties of scrape_job and of the adapters *)

ScrapeJobOver == pc = "done" /\ mode = "scrape_job"

(* C5: scrape_job never raises; it returns None or a record with a non-empty *)
(* title: None when adapter selection failed, the fetch failed, the adapter  *)
(* returned None or the title is unset or empty, the adapter's record        *)
(* otherwise.                                                                *)
C5_ScrapeJob ==
    ScrapeJobOver =>
        /\ result.kind \in {"None", "record"}
        /\ result.kind = "record" =>
                result.data.title # None /\ result.data.title # ""
        /\ IF \/ selected.raises
              \/ fetchRet # "doc"
              \/ scraped.kind = "None"
              \/ scraped.data.title = None
              \/ scraped.data.title = ""
           THEN result = NoRecord
           ELSE result = scraped

\* the adapter returned a record whose title element held white space only
C5_Witness ==
    /\ ScrapeJobOver
    /\ scraped.kind = "record"
    /\ scraped.data.title = ""
    /\ scraped.data.description = "SQL and Go"
    /\ result = NoRecord

(* C6 as stated: a failure while extracting one field leaves that field      *)
(* unset and the rest of the record is returned: whenever the page was       *)
(* fetched and its title is extractable, the adapter returns a record.       *)
C6_FieldFailureIsolated ==
    (ScrapeJobOver /\ fetchRet = "doc" /\ Truthy(FieldOf(page.title))) =>
        /\ scraped.kind = "record"
        /\ scraped.data.title = FieldOf(page.title)

\* RFC 3986 host of a URL: the network location without user info and port
HostOf(u) ==
    LET n == urlparse(u).netloc
        ats == {i \in 1..Len(n) : Ch(n, i) = "@"}
        afterUser ==
            IF ats = {} THEN n
            ELSE SubSeq(n, (CHOOSE i \in ats : \A j \in ats : j <= i) + 1, Len(n))
        colon == FindCh(":", afterUser)
    IN  IF colon = 0 THEN afterUser ELSE SubSeq(afterUser, 1, colon - 1)

\* the dispatch table as the claim reads it, applied to a lowercased host
AdapterOfHost(h) ==
    IF Contains("linkedin.com", h) THEN "LinkedInScraper"
    ELSE IF Contains("indeed.com", h) \/ Contains("indeed.co", h)
    THEN "IndeedScraper"
    ELSE IF Contains("glassdoor.com", h) THEN "GlassdoorScraper"
    ELSE IF Contains("drushim.co.il", h) THEN "DrushimScraper"
    ELSE IF Contains("alljobs.co.il", h) THEN "AllJobsScraper"
    ELSE "LinkedInScraper"

(* C7 as stated: for every URL get_scraper returns an adapter and never      *)
(* raises: the adapter of the first table entry whose key is a substring of  *)
(* the lowercased host of the URL, the LinkedIn-heuristics fallback when     *)
(* none matches.                                                             *)
C7_DispatchByHost ==
    (mode = "scrape_job" /\ pc # "idle") =>
        /\ ~selected.raises
        /\ selected.cls = AdapterOfHost(Lower(HostOf(url)))

InstanceIds == {i.id : i \in instances}

(* C8 as stated, for the calls whose adapter selection succeeded: a          *)
(* scrape_job call constructs exactly one adapter instance and uses only     *)
(* that one; no instance of an earlier call is used.                         *)
C8_ExactlyOneInstance ==
    (ScrapeJobOver /\ ~selected.raises) =>
        /\ Cardinality(instances) = 1
        /\ used \subseteq InstanceIds
        /\ InstanceIds \cap retired = {}

(* C8, amended: a scrape_job call constructs one adapter instance through    *)
(* get_scraper (none when get_scraper raises); an Indeed, Glassdoor, Drushim *)
(* or AllJobs adapter that returns a record with a non-empty description has *)
(* constructed exactly one further instance, a LinkedInScraper, to call      *)
(* extract_skills on it; no other instance is constructed or used, and no    *)
(* instance of an earlier call is used.                                      *)
C8_AdapterAndSkillsHelper ==
    mode = "scrape_job" =>
        /\ used = InstanceIds
        /\ InstanceIds \cap retired = {}
        /\ Cardinality(InstanceIds) = Cardinality(instances)
        /\ selected.raises => instances = {}
        /\ (pc # "idle" /\ ~selected.raises) =>
                /\ [id |-> selected.id, cls |-> selected.cls] \in instances
                /\ \A i \in instances :
                        i.id # selected.id => i.cls = "LinkedInScraper"
                /\ Cardinality(instances) =
                        IF /\ pc = "done"
                           /\ selected.cls # "LinkedInScraper"
                           /\ scraped.kind = "record"
                           /\ Truthy(scraped.data.description)
                        THEN 2
                        ELSE 1

\* a Drushim call, after an earlier call, that built its helper LinkedInScraper
C8_Witness ==
    /\ ScrapeJobOver
    /\ selected.cls = "DrushimScraper"
    /\ Cardinality(instances) = 2
    /\ retired # {}
    /\ result.kind = "record"

\* the inference of the claim on a lowercased whole-page text
ClaimedWorkMode(t) ==
    IF Contains("remote", t) THEN "remote"
    ELSE IF Contains("hybrid", t) THEN "hybrid"
    ELSE "onsite"

ClaimedJobType(t) ==
    IF Contains("part-time", t) \/ Contains("part time", t) THEN "part-time"
    ELSE IF Contains("contract", t) THEN "contract"
    ELSE "full-time"

\* the job-type rule of the Indeed adapter, on the text of its job-type element
ElementJobType(e) ==
    IF e # None /\ Contains("part", Lower(e)) THEN "part-time"
    ELSE IF e # None /\ Contains("contract", Lower(e)) THEN "contract"
    ELSE "full-time"

AdapterReturnedRecord ==
    ScrapeJobOver /\ fetchRet = "doc" /\ scraped.kind = "record"

(* C9 as stated (letter case of the values aside): whatever the adapter, the *)
(* returned record's work_mode and job_type are the ones inferred from the   *)
(* lowercased whole-page text.                                               *)
C9_WholePageInferenceEverywhere ==
    AdapterReturnedRecord =>
        /\ Lower(scraped.data.work_mode) = ClaimedWorkMode(Lower(get_text(page)))
        /\ Lower(scraped.data.job_type) = ClaimedJobType(Lower(get_text(page)))

(* C9, amended (letter case of the values aside): the LinkedIn adapter,      *)
(* which is also the fallback, infers work_mode and job_type from the        *)
(* lowercased whole-page text as claimed; the Indeed adapter infers          *)
(* work_mode the same way but takes job_type from its job-type element       *)
(* alone (part-time if the element's lowercased text contains 'part', else   *)
(* contract if it contains 'contract', else, or without the element,         *)
(* full-time); the Glassdoor, Drushim and AllJobs adapters infer nothing and *)
(* always return onsite and full-time.                                       *)
C9_InferencePerAdapter ==
    AdapterReturnedRecord =>
        LET t == Lower(get_text(page))
            wm == Lower(scraped.data.work_mode)
            jt == Lower(scraped.data.job_type)
        IN  CASE selected.cls = "LinkedInScraper" ->
                    wm = ClaimedWorkMode(t) /\ jt = ClaimedJobType(t)
              [] selected.cls = "IndeedScraper" ->
                    wm = ClaimedWorkMode(t) /\ jt = ElementJobType(page.job_type)
              [] OTHER -> wm = "onsite" /\ jt = "full-time"

\* a page that says both hybrid and remote, read by the LinkedIn adapter
C9_Witness ==
    /\ AdapterReturnedRecord
    /\ selected.cls = "LinkedInScraper"
    /\ page.other = " hybrid or Remote"
    /\ scraped.data.work_mode = "Remote"

(* C10 as stated: every returned record has work_mode in {remote, hybrid,    *)
(* onsite} and job_type in {full_time, part_time, contract}, spelled exactly *)
(* so.                                                                       *)
C10_SchemaLiterals ==
    scraped.kind = "record" =>
        /\ scraped.data.work_mode \in {"remote", "hybrid", "onsite"}
        /\ scraped.data.job_type \in {"full_time", "part_time", "contract"}

(* C10, amended: every returned record has work_mode in {Remote, Hybrid,     *)
(* Onsite} and job_type in {Full-time, Part-time, Contract}, spelled exactly *)
(* so (capitalised, with a hyphen).                                          *)
C10_CapitalisedLiterals ==
    scraped.kind = "record" =>
        /\ scraped.data.work_mode \in {"Remote", "Hybrid", "Onsite"}
        /\ scraped.data.job_type \in {"Full-time", "Part-time", "Contract"}

\* an Indeed record whose job-type element says Contract on a hybrid page
C10_Witness ==
    /\ ScrapeJobOver
    /\ selected.cls = "IndeedScraper"
    /\ result.kind = "record"
    /\ result.data.work_mode = "Hybrid"
    /\ result.data.job_type = "Contract"

-----------------------------------------------------------------------------
(* Properties of extract_skills *)

\* t occurs in s as a whole token: no word character right before or after it
OccursAsToken(t, s) ==
    \E i \in 1..(Len(s) - Len(t) + 1) :
        /\ SubSeq(s, i, i + Len(t) - 1) = t
        /\ i = 1 \/ ~IsWordCh(Ch(s, i - 1))
        /\ i + Len(t) > Len(s) \/ ~IsWordCh(Ch(s, i + Len(t)))

SkillsOfRecord == scraped.data.skills

(* C11 as stated: a vocabulary term is among the skills of a record only if  *)
(* it occurs in the description as a whole token, compared                   *)
(* case-insensitively; a term that occurs only inside a longer word is not   *)
(* returned.                                                                 *)
C11_WholeTokenMatch ==
    scraped.kind = "record" =>
        \A k \in 1..Len(SkillsOfRecord) :
            OccursAsToken(Lower(SkillsOfRecord[k]),
                          Lower(scraped.data.description))

\* position of a term in the vocabulary, 0 when it is not a term
VocabularyIndex(t) ==
    IF \E i \in 1..Len(common_skills) : common_skills[i] = t
    THEN CHOOSE i \in 1..Len(common_skills) : common_skills[i] = t
    ELSE 0

\* the vocabulary positions of the terms the scan finds in description d
FoundAt(d) ==
    {i \in 1..Len(common_skills) : Contains(Lower(common_skills[i]), Lower(d))}

(* C12: the skills of every job record are vocabulary terms, none listed     *)
(* twice, in the order of the vocabulary scan, at most 10 of them; every     *)
(* listed term was found in the description, and the terms listed are the    *)
(* first ones found: all of them when at most 10 are found, exactly the      *)
(* first 10 otherwise; skills is empty when no description was extracted.    *)
C12_SkillsCapped ==
    scraped.kind = "record" =>
        LET sk == SkillsOfRecord
            d == scraped.data.description
            F == IF Truthy(d) THEN FoundAt(d) ELSE {}
            L == {VocabularyIndex(sk[k]) : k \in 1..Len(sk)}
        IN  /\ Len(sk) <= 10
            /\ \A k \in 1..Len(sk) : VocabularyIndex(sk[k]) > 0
            /\ \A k \in 1..(Len(sk) - 1) :
                    VocabularyIndex(sk[k]) < VocabularyIndex(sk[k + 1])
            /\ L \subseteq F
            /\ \A i \in F \ L : \A j \in L : j < i
            /\ Len(sk) = IF Cardinality(F) > 10 THEN 10 ELSE Cardinality(F)
            /\ ~Truthy(d) => sk = <<>>

\* twelve terms found, the last two (API, Go) cut off
C12_Witness ==
    /\ scraped.kind = "record"
    /\ scraped.data.description = ManySkillsDescription
    /\ Cardinality(FoundAt(ManySkillsDescription)) = 12
    /\ Len(SkillsOfRecord) = 10
    /\ SkillsOfRecord[10] = "REST"

-----------------------------------------------------------------------------
(* Properties of extract_salary *)

SalaryCalled == fn = "extract_salary"

(* C13: on a text containing a range 'a SEP b' (SEP one of '-', 'to', the en *)
(* dash; amounts whole numbers, with or without thousands commas)            *)
(* extract_salary returns min = a and max = b as integers, with currency     *)
(* ILS when both amounts carry the shekel sign and USD when both carry the   *)
(* dollar sign; on a text with a single amount it returns min = max = that   *)
(* amount; on a text with no amount it returns min and max unset.            *)
C13_SalaryRanges ==
    SalaryCalled =>
        /\ arg.kind = "range" =>
                /\ ret.kind = "salary"
                /\ ret.min = arg.a
                /\ ret.max = arg.b
                /\ ret.currency = IF arg.sign = Shekel THEN "ILS" ELSE "USD"
        /\ arg.kind = "single" =>
                /\ ret.kind = "salary"
                /\ ret.min = arg.a
                /\ ret.max = arg.a
        /\ arg.kind = "no amount" =>
                /\ ret.kind = "salary"
                /\ ret.min = NoneInt
                /\ ret.max = NoneInt

\* the spec's dollar example
C13_Witness ==
    /\ SalaryCalled
    /\ arg.kind = "range"
    /\ arg.text = "Salary: $15,000 to $100,000 per month"
    /\ ret.min = 15000
    /\ ret.max = 100000
    /\ ret.currency = "USD"

-----------------------------------------------------------------------------
(* Properties of calculate_match_score *)

ScoreCalled == fn = "calculate_match_score"

Elements(q) == {q[k] : k \in 1..Len(q)}

RECURSIVE IsSubsequence(_, _)
\* sub can be had from q by deleting entries
IsSubsequence(sub, q) ==
    IF sub = <<>> THEN TRUE
    ELSE IF q = <<>> THEN FALSE
    ELSE IF Head(sub) = Head(q) THEN IsSubsequence(Tail(sub), Tail(q))
    ELSE IsSubsequence(sub, Tail(q))

(* C14: matched_skills and missing_skills partition user_skills: no skill is *)
(* in both, together they hold exactly the input skills, each is a           *)
(* subsequence of user_skills in input order, and every entry is spelled     *)
(* exactly as in the input.                                                  *)
C14_Partition ==
    ScoreCalled =>
        /\ Elements(ret.matched) \cap Elements(ret.missing) = {}
        /\ Elements(ret.matched) \cup Elements(ret.missing)
                = Elements(arg.user_skills)
        /\ IsSubsequence(ret.matched, arg.user_skills)
        /\ IsSubsequence(ret.missing, arg.user_skills)
        /\ Len(ret.matched) + Len(ret.missing) = Len(arg.user_skills)

\* two spellings of one skill, both matched and both kept as written
C14_Witness ==
    /\ ScoreCalled
    /\ arg.user_skills = <<"Go", "Python", "go">>
    /\ ret.matched = <<"Go", "go">>
    /\ ret.missing = <<"Python">>

\* the score before rounding is ScoreNum / ScoreDen hundredths
ScoreNum ==
    5000 * (Len(ret.matched) * SimSteps + ret.sim * Len(arg.user_skills))
ScoreDen == Len(arg.user_skills) * SimSteps
CappedNum == IF ScoreNum > 10000 * ScoreDen THEN 10000 * ScoreDen ELSE ScoreNum

\* the score is the capped value rounded to two decimals, within [0, 100]
ScoreIsRounded ==
    /\ ret.sim \in 0..SimSteps
    /\ 2 * (ret.score * ScoreDen - CappedNum) <= ScoreDen
    /\ 2 * (CappedNum - ret.score * ScoreDen) <= ScoreDen
    /\ ret.score >= 0
    /\ ret.score <= 10000

EmptySkillsResult ==
    ret.score = 0 /\ ret.matched = <<>> /\ ret.missing = <<>>

(* C15 as stated: for non-empty userSkills the score is                      *)
(* min(100, (|matched|/|userSkills| * 0.5 + sim * 0.5) * 100) rounded to two *)
(* decimals, within [0, 100] and at least 50 * |matched|/|userSkills|; for   *)
(* empty userSkills the result is score 0 with empty lists.                  *)
C15_ScoreAtLeastExactShare ==
    ScoreCalled =>
        IF arg.user_skills = <<>> THEN EmptySkillsResult
        ELSE /\ ScoreIsRounded
             /\ ret.score * Len(arg.user_skills) >= 5000 * Len(ret.matched)

(* C15, amended: as stated, except that the score is at least                *)
(* 50 * |matched|/|userSkills| rounded to two decimals, which can be up to   *)
(* 0.005 below 50 * |matched|/|userSkills| itself.                           *)
C15_ScoreFormula ==
    ScoreCalled =>
        IF arg.user_skills = <<>> THEN EmptySkillsResult
        ELSE /\ ScoreIsRounded
             /\ 2 * ret.score * Len(arg.user_skills)
                    >= 10000 * Len(ret.matched) - Len(arg.user_skills)

\* two of three skills matched and no term shared: 33.33, below 100/3
C15_Witness ==
    /\ ScoreCalled
    /\ arg.user_skills = <<"C", "Go", "Python">>
    /\ Len(ret.matched) = 2
    /\ ret.vectorized = "ok"
    /\ ret.sim = 0
    /\ ret.score = 3333

(* C16: a user skill is in matched_skills if and only if its lowercased form *)
(* occurs in lowercase(job_title + ' ' + job_description) as a whole word,   *)
(* with no word character right before or right after it; a skill that       *)
(* occurs only inside a longer word is not matched.                          *)
C16_WholeWordMatch ==
    ScoreCalled =>
        \A k \in 1..Len(arg.user_skills) :
            (arg.user_skills[k] \in Elements(ret.matched))
                <=> OccursAsToken(Lower(arg.user_skills[k]),
                                  Lower(arg.job_title \o " "
                                            \o arg.job_description))

\* 'go' occurs only inside 'ongoing'
C16_Witness ==
    /\ ScoreCalled
    /\ arg.job_description = "ongoing work"
    /\ arg.user_skills = <<"Go">>
    /\ ret.matched = <<>>
    /\ ret.missing = <<"Go">>

\* a well-formed MatchResult
WellFormedResult ==
    /\ ret.kind = "score"
    /\ ret.score \in 0..10000
    /\ Elements(ret.matched) \subseteq Elements(arg.user_skills)
    /\ Elements(ret.missing) \subseteq Elements(arg.user_skills)

(* C17 as stated: calculate_match_score never fails and returns a            *)
(* well-formed result; when vectorization fails the similarity is taken as 0 *)
(* and the score is exactly 50 * |matched|/|userSkills|.                     *)
C17_FallbackExact ==
    ScoreCalled =>
        /\ WellFormedResult
        /\ ret.vectorized = "raised" =>
                /\ ret.sim = 0
                /\ ret.score * Len(arg.user_skills) = 5000 * Len(ret.matched)

(* C17, amended: as stated, except that when vectorization fails the score   *)
(* is 50 * |matched|/|userSkills| rounded to two decimals.                   *)
C17_FallbackRounded ==
    ScoreCalled =>
        /\ WellFormedResult
        /\ ret.vectorized = "raised" =>
                /\ ret.sim = 0
                /\ 2 * (ret.score * Len(arg.user_skills)
                            - 5000 * Len(ret.matched)) <= Len(arg.user_skills)
                /\ 2 * (5000 * Len(ret.matched)
                            - ret.score * Len(arg.user_skills))
                        <= Len(arg.user_skills)

\* no document keeps a term ('go' is a stop word): the fallback, and 33.33
C17_Witness ==
    /\ ScoreCalled
    /\ arg.user_skills = <<"C", "Go", "R">>
    /\ arg.target_role = ""
    /\ ret.vectorized = "raised"
    /\ ret.matched = <<"C", "Go">>
    /\ ret.score = 3333

ExtractCalled == fn = "extract_text_from_resume"

SupportedFormat(filename) ==
    EndsWith(filename, ".pdf") \/ EndsWith(filename, ".docx")

(* C18: extract_text_from_resume called with a filename that ends in neither *)
(* .pdf nor .docx returns no text and fails with the failure whose detail is *)
(* 'Unsupported file format', not with the 'Failed to read file' failure.    *)
C18_UnsupportedFormatSignal ==
    (ExtractCalled /\ ~SupportedFormat(arg.filename)) =>
        /\ ret.kind = "HTTPException"
        /\ ret.detail = "Unsupported file format"

\* parse_resume_text was called, with a text
ParseCalled == fn = "parse_resume_text" /\ arg.kind = "text"

\* the k-th title keyword occurs in the text of the call, ignoring case
KeywordOccurs(k) == Contains(Lower(title_keywords[k]), Lower(arg.text))

(* C19: parse_resume_text sets target_role to the first keyword, in the      *)
(* order of the title-keyword list, that occurs case-insensitively anywhere  *)
(* in the text, wherever the keywords stand in the document; the value is    *)
(* the keyword as the list spells it, and target_role is unset when no       *)
(* keyword occurs.                                                           *)
C19_FirstInListOrder ==
    ParseCalled =>
        IF \E k \in 1..Len(title_keywords) : KeywordOccurs(k)
        THEN \E k \in 1..Len(title_keywords) :
                /\ KeywordOccurs(k)
                /\ \A j \in 1..(k - 1) : ~KeywordOccurs(j)
                /\ ret.target_role = title_keywords[k]
        ELSE ret.target_role = None

\* 'Backend' stands before 'Developer' in the document and after it in the
\* list: the role is 'Developer'
C19_Witness ==
    /\ ParseCalled
    /\ Find("backend", Lower(arg.text)) > 0
    /\ Find("backend", Lower(arg.text)) < Find("developer", Lower(arg.text))
    /\ ret.target_role = "Developer"

\* the terms of the five category patterns, as the patterns spell them
SkillVocabulary ==
    UNION {{skill_patterns[p][k] : k \in 1..Len(skill_patterns[p])} :
            p \in 1..Len(skill_patterns)}

\* the vocabulary terms that match somewhere in the text of the call
TermsOccurring ==
    {t \in SkillVocabulary :
        \E i \in 1..Len(arg.text) : MatchingAt(<<t>>, arg.text, i) # {}}

(* C20: the skills parse_resume_text returns are vocabulary terms of the     *)
(* five category patterns that occur in the text, each spelled as the        *)
(* vocabulary spells it whatever its casing in the document, no term twice,  *)
(* at most 20 of them; a text mentioning Python, React and PostgreSQL in any *)
(* casing yields exactly {Python, React, PostgreSQL}.                        *)
C20_VocabularySpelling ==
    ParseCalled =>
        /\ ret.skills \subseteq TermsOccurring
        /\ \A a, b \in ret.skills : Lower(a) = Lower(b) => a = b
        /\ Cardinality(ret.skills) <= MaxResumeSkills
        /\ TermsOccurring = {"Python", "React", "PostgreSQL"}
                => ret.skills = {"Python", "React", "PostgreSQL"}

(* Skills written with characters that are no word characters, given to both *)
(* recognisers: calculate_match_score (services/ai.py) and parse_resume_text *)
(* (routers/resume.py)                                                       *)

SymbolSkillNames == {"C++", "C#", ".NET", "Python"}
SymbolSkillLists ==
    {<<a>> : a \in SymbolSkillNames}
        \cup {<<a, b>> : a \in SymbolSkillNames, b \in SymbolSkillNames}
SymbolPostings ==
    {[title |-> "Senior C++ Developer",
      description |-> "Python , c++ , C# and .NET services"],
     [title |-> "ASP.NET developer", description |-> "web forms in c#"],
     [title |-> "Python developer", description |-> "no symbols here"]}
SymbolSkillLines ==
    {"C++ C# .NET Python", "skills: c++ and c# on .net", "ASP.NET and Java", ""}

SymbolNext ==
    \/ \E user_skills \in SymbolSkillLists, target_role \in TargetRoles,
          job \in SymbolPostings :
            CalculateMatchScore(user_skills, target_role, job)
    \/ \E name \in NameLines, skills \in SymbolSkillLines,
          location \in LocationLines :
            ParseResumeText(name, "Backend Developer", skills, location)
    \/ TextReturn

SymbolSpec == Init /\ [][SymbolNext]_vars

-----------------------------------------------------------------------------
ParseAttempted == fn = "parse_resume_text"

ProfileFields == {"full_name", "target_role", "skills", "location_preference"}

HasPrefix(s, prefix) ==
    Len(s) >= Len(prefix) /\ SubSeq(s, 1, Len(prefix)) = prefix

(* C21: parse_resume_text is all-or-nothing. A call in which the extraction  *)
(* of a field fails ends in one failure, HTTP 400 with the detail 'Failed to *)
(* parse resume: <cause>', that carries no profile field; a call that        *)
(* succeeds returns all four fields full_name, target_role, skills and       *)
(* location_preference.                                                      *)
C21_AllOrNothing ==
    ParseAttempted =>
        IF arg.kind = "text"
        THEN ret.kind = "profile" /\ ProfileFields \subseteq DOMAIN ret
        ELSE /\ ret.kind = "HTTPException"
             /\ ret.status_code = 400
             /\ ret.detail = "Failed to parse resume: " \o SplitFailure[arg.type]
             /\ ProfileFields \cap DOMAIN ret = {}

\* the first field's extraction failed, result already initialised
C21_Witness ==
    /\ ParseAttempted
    /\ arg.kind = "not text"
    /\ ret.kind = "HTTPException"
    /\ HasPrefix(ret.detail, "Failed to parse resume: 'NoneType'")

Registered(email) == \E u \in db.users : u.email = email

NoTwoUsersShareEmail ==
    \A u, v \in db.users : u.email = v.email => u = v

\* a step in which create_user answers or, its lookup done, goes on
CreateUserStep ==
    /\ \A w \in Workers :
        (pending[w] = Idle /\ pending'[w] # Idle)
            => ~Registered(pending'[w].email) /\ db' = db
    /\ (fn = "none" /\ fn' = "create_user") =>
        \/ /\ ret'.kind = "HTTPException"
           /\ ret'.status_code = 400
           /\ Registered(arg'.user_data.email)
           /\ db' = db
        \/ /\ ret'.kind = "unhandled"
           /\ Registered(arg'.user_data.email)
           /\ db' = db
        \/ /\ ret'.kind = "response"
           /\ ret'.status_code = 201
           /\ ~Registered(arg'.user_data.email)

C23_SkillsRoundTrip ==
    /\ (fn = "create_user" /\ ret.kind = "response")
            => ret.body.skills = arg.user_data.skills
    /\ (/\ fn = "update_user" /\ ret.kind = "response"
        /\ "skills" \in DOMAIN arg.user_data
        /\ arg.user_data.skills.kind = "list")
            => ret.body.skills = arg.user_data.skills.items
    /\ (fn = "get_user" /\ ret.kind = "response")
            => ret.body.skills = db.supplied[arg.user_id]

\* what the claim says a step of update_job does
UpdateJobStep ==
    (fn = "none" /\ fn' = "update_job") =>
        LET request == arg'.job_data
            before == {j \in db.jobs : j.id = arg'.job_id}
            after == {j \in db'.jobs : j.id = arg'.job_id}
        IN  IF before = {}
            THEN /\ ret'.kind = "HTTPException"
                 /\ ret'.status_code = 404
                 /\ db' = db
            ELSE /\ ret'.kind = "response"
                 /\ db'.users = db.users
                 /\ db'.jobs \ after = db.jobs \ before
                 /\ \A old \in before : \E new \in after :
                        \A field \in DOMAIN old :
                            new[field] = IF field \in DOMAIN request
                                         THEN request[field] ELSE old[field]

(* C24: update_job changes exactly the fields present in the request and     *)
(* leaves every other field of that job, and every other job, unchanged; a   *)
(* status in the request replaces the current status whatever that is; for   *)
(* an unknown job id it returns 404 and changes nothing.                     *)
C24_UpdateJob == [][UpdateJobStep]_vars

JobsReferToUsers ==
    \A j \in db.jobs : \E u \in db.users : u.id = j.user_id

CreateJobStep ==
    (fn = "none" /\ fn' = "create_job") =>
        IF \E u \in db.users : u.id = arg'.user_id
        THEN /\ ret'.kind = "response"
             /\ ret'.status_code = 201
             /\ ret'.body.status = "saved"
             /\ ret'.body.user_id = arg'.user_id
             /\ db'.jobs = db.jobs \cup {ret'.body}
             /\ ret'.body \notin db.jobs
        ELSE /\ ret'.kind = "HTTPException"
             /\ ret'.status_code = 404
             /\ db' = db

DeleteUserStep ==
    (fn = "none" /\ fn' = "delete_user" /\ ret'.kind = "response") =>
        /\ \A u \in db'.users : u.id # arg'.user_id
        /\ db'.jobs = {j \in db.jobs : j.user_id # arg'.user_id}

(* C25: after any sequence of create_user, delete_user, create_job and       *)
(* delete_job requests every stored job refers to an existing user:          *)
(* create_job for a user that does not exist returns 404 and stores nothing, *)
(* a created job has status saved and the user_id of the request, and        *)
(* delete_user removes all the jobs of the deleted user.                     *)
C25_JobsReferToUsers ==
    []JobsReferToUsers /\ [][CreateJobStep /\ DeleteUserStep]_vars

\* a user was deleted while jobs are stored
C25_Witness ==
    /\ fn = "delete_user"
    /\ ret.kind = "response"
    /\ db.jobs # {}
    /\ \A j \in db.jobs : j.user_id # arg.user_id
    /\ \E j \in db.jobs : j.id = MaxJobId

EmptyValue(value) == value = None \/ value = ""

\* what a step of upload_resume does to the tables
UploadStep ==
    (fn = "none" /\ fn' = "upload_resume") =>
        LET before == CHOOSE u \in db.users : u.id = arg'.user_id
            after == CHOOSE u \in db'.users : u.id = arg'.user_id
            changed == {field \in ProfileFields : after[field] # before[field]}
        IN  /\ \E u \in db'.users : u.id = arg'.user_id
            /\ {u \in db'.users : u.id # arg'.user_id}
                    = {u \in db.users : u.id # arg'.user_id}
            /\ db'.jobs = db.jobs
            /\ \A field \in DOMAIN before \ ProfileFields :
                    after[field] = before[field]
            /\ \A field \in ProfileFields :
                    ~EmptyValue(before[field]) => after[field] = before[field]
            /\ \A field \in changed :
                    /\ ret'.kind = "response"
                    /\ EmptyValue(before[field])
                    /\ IF field = "skills"
                       THEN ret'.body.parsed_data.skills # {}
                       ELSE ~EmptyValue(ret'.body.parsed_data[field])
            /\ ret'.kind = "response" =>
                    /\ {ret'.body.updated_fields[k] :
                            k \in 1..Len(ret'.body.updated_fields)} = changed
                    /\ Len(ret'.body.updated_fields) = Cardinality(changed)
            /\ ret'.kind # "response" => db' = db

(* C26: upload_resume sets a profile field (full_name, target_role, skills,  *)
(* location_preference) only when the parsed value is non-empty and the      *)
(* stored field is empty: no upload overwrites a non-empty stored field,     *)
(* updated_fields lists exactly the fields that changed, and an upload       *)
(* rejected for its file type, a size above 5MB, a read failure or a parse   *)
(* failure leaves the profile as it was.                                     *)
C26_OnlyIfEmpty == [][UploadStep]_vars

\* the stored name is kept though the resume has another, and the empty
\* target role is filled in
C26_Witness ==
    /\ fn = "upload_resume"
    /\ ret.kind = "response"
    /\ ret.body.parsed_data.full_name = "Jane Doe"
    /\ ret.body.user.full_name = "Bob Roe"
    /\ ret.body.updated_fields = <<"target_role">>
    /\ \E u \in db.users : u.id = arg.user_id /\ u.target_role = "Developer"

\* what the claim says a step of check_alert_now does
CheckAlertStep ==
    (fn = "none" /\ fn' = "check_alert_now") =>
        LET caller == CHOOSE u \in db.users : u.id = arg'.user_id
            owned == {a \in db.alerts :
                        a.id = arg'.alert_id /\ a.user_id = arg'.user_id}
        IN  IF owned = {}
            THEN /\ ret'.kind = "HTTPException"
                 /\ ret'.status_code = 404
                 /\ db' = db
            ELSE LET alert == CHOOSE a \in owned : TRUE
                     others == {j \in db.jobs : j.user_id # arg'.user_id}
                     hits == {j \in others :
                                KeywordMatches(keywords_list(alert.keywords), j)}
                 IN  /\ ret'.kind = "response"
                     /\ {j.id : j \in ret'.body.jobs} \subseteq {j.id : j \in hits}
                     /\ EmptyValue(caller.skills) =>
                            {j.id : j \in ret'.body.jobs} = {j.id : j \in hits}
                     /\ ~EmptyValue(caller.skills) =>
                            \A j \in ret'.body.jobs :
                                /\ j.match_score # None
                                /\ j.match_score >= alert.min_match_score
                     /\ \E a \in db'.alerts :
                            a.id = alert.id /\ a.last_checked # None
                     /\ db'.jobs = db.jobs /\ db'.users = db.users

(* C27: check_alert_now on an alert the caller owns always completes without *)
(* an error, whatever the caller's skills and the stored jobs: it returns    *)
(* the other users' jobs that contain one of the alert's keywords, only      *)
(* those with a match score of at least min_match_score when the caller has  *)
(* skills, and sets the alert's last_checked; for an alert the caller does   *)
(* not own it returns 404 and changes nothing.                               *)
C27_CheckAlertCompletes == [][CheckAlertStep]_vars

\* the texts of the calls that hold one range whose first amount has a dollar
\* sign
DollarFirstRange ==
    \/ arg.kind = "range" /\ arg.sign = "$"
    \/ arg.text = "$80,000 - 100,000"

(* C28: extract_salary reports the currency USD for every salary range whose *)
(* first amount is written with a dollar sign, also when the second amount   *)
(* has no currency sign, as in '$80,000 - 100,000'; it reports ILS only when *)
(* the matched range has no dollar sign.                                     *)
C28_DollarRangeIsUSD ==
    SalaryCalled =>
        /\ DollarFirstRange => ret.kind = "salary" /\ ret.currency = "USD"
        /\ (arg.kind \in {"range", "other"} /\ ret.kind = "salary"
                /\ ret.min # ret.max /\ ret.currency = "ILS")
            => ~Contains("$", arg.text)

\* the title keywords some parsed resume of the model was given as target_role
\* for: keyword k is extractable when the resume made of it yields it
Extractable(k) ==
    arg.text = KeywordResume(title_keywords[k])
        => ret.target_role = title_keywords[k]

(* C29: every keyword of parse_resume_text's title-keyword list can be the   *)
(* extracted target_role. A text that holds keyword k holds every keyword    *)
(* that is a substring of k, so k can be extracted from some text exactly    *)
(* when it is extracted from the resume whose role line is k alone, and when *)
(* no earlier keyword of the list is a substring of k.                       *)
C29_EveryKeywordExtractable ==
    ParseCalled =>
        \A k \in DOMAIN title_keywords :
            /\ Extractable(k)
            /\ (ret.target_role = title_keywords[k]) =>
                    \A j \in 1..(k - 1) :
                        ~Contains(Lower(title_keywords[j]),
                                  Lower(title_keywords[k]))

\* the whitespace-delimited tokens of s
WhitespaceTokens(s) ==
    LET starts == {i \in 1..Len(s) :
                        ~IsSpace(Ch(s, i)) /\ (i = 1 \/ IsSpace(Ch(s, i - 1)))}
        TokenEnd(i) ==
            CHOOSE e \in i..Len(s) :
                /\ \A j \in i..e : ~IsSpace(Ch(s, j))
                /\ e = Len(s) \/ IsSpace(Ch(s, e + 1))
    IN  {SubSeq(s, i, TokenEnd(i)) : i \in starts}

\* calculate_match_score puts every user skill that is a token of the job
\* text in matched_skills
MatchedAsToken ==
    LET tokens == WhitespaceTokens(JobText(arg.job_title, arg.job_description))
    IN  \A k \in 1..Len(arg.user_skills) :
            Lower(arg.user_skills[k]) \in tokens
                => \E m \in 1..Len(ret.matched) :
                        ret.matched[m] = arg.user_skills[k]

\* parse_resume_text includes every vocabulary term that is a token of the
\* text in skills
ParsedAsToken ==
    LET tokens == WhitespaceTokens(Lower(arg.text))
    IN  \A term \in SkillVocabulary :
            Lower(term) \in tokens
                => \E skill \in ret.skills : Lower(skill) = Lower(term)

(* C30: every skill that occurs in the text as a separate                    *)
(* whitespace-delimited token, compared case-insensitively, is recognised,   *)
(* also a skill whose first or last character is not alphanumeric such as    *)
(* 'C++', 'C#' and '.NET': calculate_match_score puts such a user skill in   *)
(* matched_skills, and parse_resume_text includes such a vocabulary term in  *)
(* skills.                                                                   *)
C30_TokensRecognised ==
    /\ fn = "calculate_match_score" => MatchedAsToken
    /\ ParseCalled => ParsedAsToken

=============================================================================
